---- MODULE Spec2Model ----
(***************************************************************************)
(* Model of the CSV tokenizer, the SMS record assembly and the             *)
(* confirmation-code extractor of src/src/app/actions/data.ts.             *)
(*                                                                         *)
(* A string is a sequence of one-character strings; the empty string is    *)
(* the empty sequence.  Indices of the source are 0-based: At(t, k) is     *)
(* the source's t[k].                                                      *)
(***************************************************************************)
EXTENDS Integers, Sequences, FiniteSets, TLC

VARIABLES
    input,      \* parseCsvWithQuotes: the argument
    text,       \* input.trim()
    i,          \* the loop index
    inQuotes,   \* scanner flag
    row,        \* current row accumulator
    field,      \* current field accumulator
    rows,       \* rows scanned so far
    result,     \* the returned table (after the filter)
    iters,      \* number of loop iterations executed so far
    pc,         \* "start" | "scan" | "done"
    \* round trip of a table through its rendering
    table,      \* the rows to render
    sep,        \* the line terminator the rows are joined with
    rendered,   \* the rendered text
    reparsed,   \* parseCsvWithQuotes(rendered)
    rtpc,       \* "table" | "text" | "parsed"
    \* extractInfoWithoutAI
    message,    \* the argument
    nchunks,    \* the number of chunks the argument was built from
    info,       \* the returned ExtractedInfo
    expc,       \* "build" | "given" | "done"
    \* fetchSmsData, from the response body on
    smsHeader,  \* the header line the remote API sends (its labels)
    smsShape,   \* the number of fields of each data line it sends
    csvText,    \* the response body
    allRows,    \* parseCsvWithQuotes(csvText)
    headers,    \* the normalised header row
    dataRows,   \* allRows.slice(1)
    columnMap,  \* logical field name -> column index
    records,    \* the records assembled so far
    rowIdx,     \* the number of data rows the for-of loop has consumed
    smsResult,  \* the value returned: [data, error]
    smspc,      \* "remote" | "body" | "parsed" | "mapped" | "loop" | "done"
    \* a series of extractInfoWithoutAI calls
    callMessage, \* the argument of the call in progress
    callLog,    \* the calls that returned: their arguments and results
    codeStop,   \* the offset at which the latest code scan stopped
    linkStop,   \* the offset at which the latest link scan stopped
    callpc,     \* "ready" | "entered"
    \* concurrent requests
    requests,   \* request -> its input, its locals and its results
    \* the fetch actions before the response body
    apiKey,     \* the value getApiKey returned, once it has
    filter,     \* fetchSmsData: the filter argument
    sent,       \* the number of requests sent to the remote API
    \* connectDB
    cached,     \* global.mongoose: [conn, promise]
    connects,   \* the number of mongoose.connect calls started
    seeds,      \* the number of seedDatabase calls started
    promiseState, \* "none" | "pending" | "seeding" | "resolved" | "rejected"
    callers     \* caller -> its position in connectDB and what it returned

scanVars == <<input, text, i, inQuotes, row, field, rows, result, iters, pc>>

rtVars == <<table, sep, rendered, reparsed, rtpc>>

exVars == <<message, nchunks, info, expc>>

smsVars == <<smsHeader, smsShape, csvText, allRows, headers, dataRows,
             columnMap, records, rowIdx, smsResult, smspc>>

callVars == <<callMessage, callLog, codeStop, linkStop, callpc>>

concVars == <<requests>>

frontVars == <<apiKey, filter, sent>>

dbVars == <<cached, connects, seeds, promiseState, callers>>

vars == <<scanVars, rtVars, exVars, smsVars, callVars, concVars, frontVars,
          dbVars>>

\* the variables a scanner step leaves alone
nonScanVars == <<rtVars, exVars, smsVars, callVars, concVars,
                  frontVars, dbVars>>

\* the variables a round-trip step leaves alone
nonRtVars == <<scanVars, exVars, smsVars, callVars, concVars,
                frontVars, dbVars>>

\* the variables an extractor step leaves alone
nonExVars == <<scanVars, rtVars, smsVars, callVars, concVars,
                frontVars, dbVars>>

\* the variables a fetchSmsData step leaves alone
nonSmsVars == <<scanVars, rtVars, exVars, callVars, concVars,
                 frontVars, dbVars>>

\* the variables a step of the call series leaves alone
nonCallVars == <<scanVars, rtVars, exVars, smsVars, concVars,
                  frontVars, dbVars>>

\* the variables a step of a fetch action leaves alone, its own apart
nonFetchVars == <<scanVars, rtVars, exVars, callVars, concVars, dbVars>>

\* the variables a step of connectDB leaves alone
nonDbVars == <<scanVars, rtVars, exVars, smsVars, callVars, concVars,
               frontVars>>

\* the variables a step of a concurrent request leaves alone
nonConcVars == <<scanVars, rtVars, exVars, smsVars, callVars,
                  frontVars, dbVars>>

----------------------------------------------------------------------------
(* Characters *)

QUOTE == "\""
SEMI  == ";"
LF    == "\n"
CR    == "\r"
SP    == " "

\* The characters String.prototype.trim removes that occur in the model.
IsSpace(c) == c \in {SP, LF, CR, "\t"}

At(t, k) == t[k + 1]

Last(s) == s[Len(s)]

RECURSIVE TrimStart(_)
TrimStart(s) ==
    IF s # <<>> /\ IsSpace(Head(s)) THEN TrimStart(Tail(s)) ELSE s

RECURSIVE TrimEnd(_)
TrimEnd(s) ==
    IF s # <<>> /\ IsSpace(Last(s)) THEN TrimEnd(SubSeq(s, 1, Len(s) - 1)) ELSE s

\* String.prototype.trim
Trim(s) == TrimEnd(TrimStart(s))

----------------------------------------------------------------------------
(* parseCsvWithQuotes: the scanner state is the record                     *)
(* [i, inQuotes, row, field, rows]; each branch of the loop body is an     *)
(* operator on it, the loop's own i++ included.                            *)

ScanInit ==
    [i |-> 0, inQuotes |-> FALSE, row |-> <<>>, field |-> <<>>, rows |-> <<>>]

\* Variant: the literal quote is emitted but the second quote is not skipped.
EscapedQuoteNoSkip(st) ==
    [st EXCEPT !.field = Append(@, QUOTE), !.i = @ + 1]

\* inQuotes, char === '"', next char is '"': one literal quote, skip both
EscapedQuote(st) ==
    [st EXCEPT !.field = Append(@, QUOTE), !.i = @ + 2]

\* inQuotes, char === '"' not followed by '"': leave the quoted section
CloseQuote(st) ==
    [st EXCEPT !.inQuotes = FALSE, !.i = @ + 1]

\* Variant: the quote state is ignored for the delimiter.
QuotedCharSplitsField(st, c) ==
    IF c = SEMI
    THEN [st EXCEPT !.row = Append(@, st.field), !.field = <<>>, !.i = @ + 1]
    ELSE [st EXCEPT !.field = Append(@, c), !.i = @ + 1]

\* Variant: the quote state is ignored for line terminators.
QuotedCharBreaksLine(st, c) ==
    IF c \in {LF, CR}
    THEN [st EXCEPT !.rows = Append(@, Append(st.row, st.field)),
                    !.row = <<>>, !.field = <<>>, !.i = @ + 1]
    ELSE [st EXCEPT !.field = Append(@, c), !.i = @ + 1]

\* inQuotes, any other char
QuotedChar(st, c) ==
    [st EXCEPT !.field = Append(@, c), !.i = @ + 1]

\* Variant: the opening quote is kept in the field.
OpenQuoteKept(st) ==
    [st EXCEPT !.inQuotes = TRUE, !.field = Append(@, QUOTE), !.i = @ + 1]

\* not inQuotes, char === '"'
OpenQuote(st) ==
    [st EXCEPT !.inQuotes = TRUE, !.i = @ + 1]

\* Variant: the field accumulator is not reset after the push.
EndFieldKeepsField(st) ==
    [st EXCEPT !.row = Append(@, st.field), !.i = @ + 1]

\* Variant: a `;` that follows an empty field adds no field.
EndFieldSkipsEmpty(st) ==
    IF st.field = <<>> THEN [st EXCEPT !.i = @ + 1]
    ELSE [st EXCEPT !.row = Append(@, st.field), !.field = <<>>, !.i = @ + 1]

\* not inQuotes, char === ';'
EndField(st) ==
    [st EXCEPT !.row = Append(@, st.field), !.field = <<>>, !.i = @ + 1]

\* Variant: the CRLF adjustment steps the index back instead of forward.
EndRowStepsBack(st, crlf) ==
    [st EXCEPT !.rows = Append(@, Append(st.row, st.field)),
               !.row = <<>>, !.field = <<>>,
               !.i = IF crlf THEN @ ELSE @ + 1]

\* Variant: the \n after a \r is not skipped.
EndRowKeepsLf(st, crlf) ==
    [st EXCEPT !.rows = Append(@, Append(st.row, st.field)),
               !.row = <<>>, !.field = <<>>,
               !.i = @ + 1]

\* Variant: an unterminated quoted field is dropped at the end of the input.
FlushClosedOnly(st) ==
    IF ~st.inQuotes /\ (st.field # <<>> \/ Len(st.row) > 0)
    THEN [st EXCEPT !.row = Append(@, st.field),
                    !.rows = Append(@, Append(st.row, st.field))]
    ELSE st

\* not inQuotes, char is \n or \r; crlf: the char is \r and the next is \n
EndRow(st, crlf) ==
    [st EXCEPT !.rows = Append(@, Append(st.row, st.field)),
               !.row = <<>>, !.field = <<>>,
               !.i = IF crlf THEN @ + 2 ELSE @ + 1]

\* not inQuotes, any other char
PlainChar(st, c) ==
    [st EXCEPT !.field = Append(@, c), !.i = @ + 1]

NextIs(t, k, c) == k + 1 < Len(t) /\ At(t, k + 1) = c

\* One iteration of the for loop on text t.
LoopBody(t, st) ==
    LET c == At(t, st.i) IN
    IF st.inQuotes
    THEN IF c = QUOTE
         THEN IF NextIs(t, st.i, QUOTE) THEN EscapedQuote(st) ELSE CloseQuote(st)
         ELSE QuotedChar(st, c)
    ELSE IF c = QUOTE THEN OpenQuote(st)
         ELSE IF c = SEMI THEN EndField(st)
         ELSE IF c \in {LF, CR} THEN EndRow(st, c = CR /\ NextIs(t, st.i, LF))
         ELSE PlainChar(st, c)

\* Variant: only a pending non-empty field triggers the flush.
FlushFieldOnly(st) ==
    IF st.field # <<>>
    THEN [st EXCEPT !.row = Append(@, st.field),
                    !.rows = Append(@, Append(st.row, st.field))]
    ELSE st

\* if (field || row.length > 0) { row.push(field); rows.push(row); }
Flush(st) ==
    IF st.field # <<>> \/ Len(st.row) > 0
    THEN [st EXCEPT !.row = Append(@, st.field),
                    !.rows = Append(@, Append(st.row, st.field))]
    ELSE st

\* Variant: a row is kept only when its first field is non-empty.
KeepRowFirstNonEmpty(r) == Len(r) >= 1 /\ r[1] # <<>>

KeepRow(r) == Len(r) > 1 \/ (Len(r) = 1 /\ r[1] # <<>>)

\* rows.filter(r => r.length > 1 || (r.length === 1 && r[0]))
FilterRows(rs) == SelectSeq(rs, KeepRow)

RECURSIVE ScanFrom(_, _)
ScanFrom(t, st) ==
    IF st.i < Len(t) THEN ScanFrom(t, LoopBody(t, st)) ELSE st

parseCsvWithQuotes(s) ==
    LET t == Trim(s) IN FilterRows(Flush(ScanFrom(t, ScanInit)).rows)

----------------------------------------------------------------------------
(* Inputs of the scanner specification *)

MaxLen == 5

Alphabet == {"a", SEMI, QUOTE, LF, CR, SP}

RECURSIVE StringsUpTo(_, _)
StringsUpTo(A, n) ==
    IF n = 0 THEN {<<>>}
    ELSE LET S == StringsUpTo(A, n - 1) IN
         S \cup {Append(s, c) : s \in {x \in S : Len(x) = n - 1}, c \in A}

\* a;"b;c";d
ExQuotedField == <<"a", SEMI, QUOTE, "b", SEMI, "c", QUOTE, SEMI, "d">>
\* "he said ""hi"""
ExEscapedQuote ==
    <<QUOTE, "h", "e", SP, "s", "a", "i", "d", SP, QUOTE, QUOTE, "h", "i",
      QUOTE, QUOTE, QUOTE>>
\* "line1\nline2";x
ExEmbeddedNewline ==
    <<QUOTE, "l", "i", "n", "e", "1", LF, "l", "i", "n", "e", "2", QUOTE,
      SEMI, "x">>
\* a;b
ExNoTerminator == <<"a", SEMI, "b">>

Examples == {ExQuotedField, ExEscapedQuote, ExEmbeddedNewline, ExNoTerminator}

Inputs == StringsUpTo(Alphabet, MaxLen) \cup Examples

----------------------------------------------------------------------------
(* The scanner as a state machine *)

Cur == [i |-> i, inQuotes |-> inQuotes, row |-> row, field |-> field,
        rows |-> rows]

Advance(st) ==
    /\ i' = st.i
    /\ inQuotes' = st.inQuotes
    /\ row' = st.row
    /\ field' = st.field
    /\ rows' = st.rows
    /\ iters' = iters + 1
    /\ UNCHANGED <<input, text, result, pc>>
    /\ UNCHANGED nonScanVars

InLoop == pc = "scan" /\ i < Len(text)

\* No scanner call is in progress.
ScanIdle ==
    /\ input = <<>> /\ text = <<>> /\ i = 0 /\ inQuotes = FALSE
    /\ row = <<>> /\ field = <<>> /\ rows = <<>> /\ result = <<>>
    /\ iters = 0 /\ pc = "idle"

\* An absent (undefined) value, and a present one.
None == <<>>
Some(x) == <<x>>

\* No extraction is in progress.
ExIdle ==
    /\ message = <<>> /\ nchunks = 0 /\ expc = "idle"
    /\ info = [confirmationCode |-> None, link |-> None]

\* columnMap before the headers are mapped
NoColumnMap ==
    [dateTime |-> -1, senderId |-> -1, phone |-> -1, mccMnc |-> -1,
     destination |-> -1, rate |-> -1, currency |-> -1, message |-> -1]

\* No fetchSmsData call is in progress.
SmsIdle ==
    /\ smsHeader = <<>> /\ smsShape = <<>> /\ csvText = <<>>
    /\ allRows = <<>> /\ headers = <<>> /\ dataRows = <<>>
    /\ columnMap = NoColumnMap /\ records = <<>> /\ rowIdx = 0
    /\ smsResult = [data |-> None, error |-> None]
    /\ smspc = "idle"

\* No round trip is in progress.
RtIdle ==
    /\ table = <<>> /\ sep = <<>> /\ rendered = <<>> /\ reparsed = <<>>
    /\ rtpc = "idle"

\* No series of calls is in progress.
CallIdle ==
    /\ callMessage = <<>> /\ callLog = <<>> /\ codeStop = 0 /\ linkStop = 0
    /\ callpc = "idle"

\* No concurrent requests are in progress.
ConcIdle == requests = <<>>

\* No fetch action has been called.
FrontIdle == apiKey = <<>> /\ filter = <<>> /\ sent = 0

\* connectDB has not been called.
DbIdle ==
    /\ cached = [conn |-> <<>>, promise |-> <<>>]
    /\ connects = 0 /\ seeds = 0 /\ promiseState = "none" /\ callers = <<>>

Init ==
    /\ input \in Inputs
    /\ text = <<>>
    /\ i = 0
    /\ inQuotes = FALSE
    /\ row = <<>>
    /\ field = <<>>
    /\ rows = <<>>
    /\ result = <<>>
    /\ iters = 0
    /\ pc = "start"
    /\ RtIdle
    /\ ExIdle
    /\ SmsIdle
    /\ CallIdle
    /\ ConcIdle
    /\ FrontIdle
    /\ DbIdle

\* lines 73-77: the locals are initialised and the input is trimmed
Begin ==
    /\ pc = "start"
    /\ text' = Trim(input)
    /\ i' = ScanInit.i
    /\ inQuotes' = ScanInit.inQuotes
    /\ row' = ScanInit.row
    /\ field' = ScanInit.field
    /\ rows' = ScanInit.rows
    /\ pc' = "scan"
    /\ UNCHANGED <<input, result, iters>>
    /\ UNCHANGED nonScanVars

StepEscapedQuote ==
    /\ InLoop /\ inQuotes /\ At(text, i) = QUOTE /\ NextIs(text, i, QUOTE)
    /\ Advance(EscapedQuote(Cur))

StepCloseQuote ==
    /\ InLoop /\ inQuotes /\ At(text, i) = QUOTE /\ ~NextIs(text, i, QUOTE)
    /\ Advance(CloseQuote(Cur))

StepQuotedChar ==
    /\ InLoop /\ inQuotes /\ At(text, i) # QUOTE
    /\ Advance(QuotedChar(Cur, At(text, i)))

StepOpenQuote ==
    /\ InLoop /\ ~inQuotes /\ At(text, i) = QUOTE
    /\ Advance(OpenQuote(Cur))

StepEndField ==
    /\ InLoop /\ ~inQuotes /\ At(text, i) = SEMI
    /\ Advance(EndField(Cur))

StepEndRow ==
    /\ InLoop /\ ~inQuotes /\ At(text, i) \in {LF, CR}
    /\ Advance(EndRow(Cur, At(text, i) = CR /\ NextIs(text, i, LF)))

StepPlainChar ==
    /\ InLoop /\ ~inQuotes /\ At(text, i) \notin {QUOTE, SEMI, LF, CR}
    /\ Advance(PlainChar(Cur, At(text, i)))

\* lines 113-119: the loop is over; flush, filter, return
Finish ==
    /\ pc = "scan" /\ ~(i < Len(text))
    /\ row' = Flush(Cur).row
    /\ rows' = Flush(Cur).rows
    /\ result' = FilterRows(Flush(Cur).rows)
    /\ pc' = "done"
    /\ UNCHANGED <<input, text, i, inQuotes, field, iters>>
    /\ UNCHANGED nonScanVars

Next ==
    \/ Begin
    \/ StepEscapedQuote
    \/ StepCloseQuote
    \/ StepQuotedChar
    \/ StepOpenQuote
    \/ StepEndField
    \/ StepEndRow
    \/ StepPlainChar
    \/ Finish

Spec == Init /\ [][Next]_vars

\* The function is synchronous: once called it runs to its return.
LiveSpec == Spec /\ WF_vars(Next)

----------------------------------------------------------------------------
(* Claims about the scanner *)

\* C1: a `;` read inside a quoted section never ends a field: it is appended
\* to the current field and the row, the rows and the quote state are left
\* alone; a;"b;c";d yields the one row a, b;c, d.
C1_QuotedDelimiter ==
    [][ /\ (InLoop /\ inQuotes /\ At(text, i) = SEMI) =>
            /\ field' = Append(field, SEMI)
            /\ row' = row /\ rows' = rows /\ inQuotes' /\ i' = i + 1
        /\ (pc' = "done" /\ input = ExQuotedField) =>
            result' = << << <<"a">>, <<"b", SEMI, "c">>, <<"d">> >> >>
      ]_vars

C1_Witness ==
    /\ pc = "scan" /\ inQuotes /\ i > 0 /\ At(text, i - 1) = SEMI
    /\ field # <<>> /\ Last(field) = SEMI /\ row # <<>>

\* C2: inside quotes a doubled quote appends exactly one quote, consumes both
\* characters and stays inside quotes; a lone quote ends the quoted section
\* and appends nothing; "he said ""hi""" yields the field he said "hi".
C2_EscapedQuote ==
    [][ /\ (InLoop /\ inQuotes /\ At(text, i) = QUOTE /\ NextIs(text, i, QUOTE)) =>
            /\ field' = Append(field, QUOTE) /\ i' = i + 2 /\ inQuotes'
            /\ row' = row /\ rows' = rows
        /\ (InLoop /\ inQuotes /\ At(text, i) = QUOTE /\ ~NextIs(text, i, QUOTE)) =>
            /\ field' = field /\ i' = i + 1 /\ ~inQuotes'
            /\ row' = row /\ rows' = rows
        /\ (pc' = "done" /\ input = ExEscapedQuote) =>
            result' = << << <<"h", "e", SP, "s", "a", "i", "d", SP,
                              QUOTE, "h", "i", QUOTE>> >> >>
      ]_vars

C2_Witness ==
    /\ pc = "done" /\ input = ExEscapedQuote
    /\ Len(result) = 1 /\ Len(result[1]) = 1 /\ Last(result[1][1]) = QUOTE

\* C3: a line terminator read inside a quoted section ends neither the field
\* nor the row, it is kept in the field; "line1\nline2";x is one row of two
\* fields.
C3_QuotedNewline ==
    [][ /\ (InLoop /\ inQuotes /\ At(text, i) \in {LF, CR}) =>
            /\ field' = Append(field, At(text, i))
            /\ row' = row /\ rows' = rows /\ inQuotes' /\ i' = i + 1
        /\ (pc' = "done" /\ input = ExEmbeddedNewline) =>
            result' = << << <<"l", "i", "n", "e", "1", LF,
                              "l", "i", "n", "e", "2">>, <<"x">> >> >>
      ]_vars

C3_Witness ==
    /\ pc = "scan" /\ inQuotes /\ field # <<>> /\ Last(field) \in {LF, CR}
    /\ i > 0 /\ At(text, i - 1) \in {LF, CR} /\ rows = <<>>

\* The indices of the scanned rows with more than one field or with a single
\* non-empty field.
KeptIndices ==
    {k \in DOMAIN rows :
        Len(rows[k]) > 1 \/ (Len(rows[k]) = 1 /\ rows[k][1] # <<>>)}

\* C4: the returned table has no row that is a single empty field and no row
\* without fields; every scanned row with more than one field or a single
\* non-empty field is in it, and the kept rows are in their input order.
C4_OutputFilter ==
    pc = "done" =>
        /\ \A k \in DOMAIN result : result[k] # <<>> /\ result[k] # << <<>> >>
        /\ Len(result) = Cardinality(KeptIndices)
        /\ \A k \in KeptIndices :
               result[Cardinality({j \in KeptIndices : j <= k})] = rows[k]

C4_Witness ==
    /\ pc = "done" /\ Len(rows) = 3 /\ rows[2] = << <<>> >>
    /\ Len(result) = 2 /\ result = <<rows[1], rows[3]>>

\* C5: when the scan ends with a non-empty field or a non-empty row pending,
\* the pending field and row are returned as the final row; a;b yields the
\* row a, b, and a row ending in `;` keeps its final empty field.
C5_FinalFlush ==
    [][ /\ (pc = "scan" /\ ~(i < Len(text)) /\ (field # <<>> \/ row # <<>>)) =>
            /\ pc' = "done"
            /\ result' # <<>> /\ Last(result') = Append(row, field)
        /\ (pc' = "done" /\ input = ExNoTerminator) =>
            result' = << << <<"a">>, <<"b">> >> >>
      ]_vars

C5_Witness ==
    /\ pc = "done" /\ field = <<>> /\ Len(row) = 2 /\ Last(row) = <<>>
    /\ result # <<>> /\ Last(result) = row

\* C7: the scan index strictly increases on every loop iteration, the loop
\* runs at most length(input) times with the index never past the end of the
\* text, and every call reaches its return with a table.
C7_Terminates ==
    /\ [][InLoop => i' > i]_vars
    /\ [](iters <= Len(input) /\ i <= Len(text) /\ pc \in {"start", "scan", "done"})
    /\ <>(pc = "done")

C7_Witness ==
    pc = "done" /\ iters = Len(input) /\ Len(input) >= 3 /\ result # <<>>

----------------------------------------------------------------------------
(* Round trip: a table is rendered as `;`-joined lines and tokenized again *)

MaxCells == 4

\* Field values without `;` and without a line terminator.
FieldValues ==
    {<<>>, <<"a">>, <<QUOTE>>, <<SP>>, <<SP, "a">>}

LineTerminators == {<<LF>>, <<CR>>, <<CR, LF>>}

AppendToLastRow(t, f) == [t EXCEPT ![Len(t)] = Append(@, f)]

\* The size of a table: its fields, a row without fields counting as one.
RECURSIVE CellCount(_)
CellCount(t) ==
    IF t = <<>> THEN 0
    ELSE (IF Head(t) = <<>> THEN 1 ELSE Len(Head(t))) + CellCount(Tail(t))

RECURSIVE Join(_, _)
\* Array.prototype.join on strings: the parts with d between them
Join(parts, d) ==
    IF parts = <<>> THEN <<>>
    ELSE IF Len(parts) = 1 THEN parts[1]
    ELSE parts[1] \o d \o Join(Tail(parts), d)

RenderTable(t, nl) ==
    Join([k \in DOMAIN t |-> Join(t[k], <<SEMI>>)], nl)

RtInit ==
    /\ table = <<>>
    /\ sep = <<>> /\ rendered = <<>> /\ reparsed = <<>>
    /\ rtpc = "table"
    /\ ScanIdle
    /\ ExIdle
    /\ SmsIdle
    /\ CallIdle
    /\ ConcIdle
    /\ FrontIdle
    /\ DbIdle

\* The table under test grows by a row or by a field of its last row.
RtGrow ==
    /\ rtpc = "table"
    /\ CellCount(table) < MaxCells
    /\ \/ table' = Append(table, <<>>)
       \/ \E f \in FieldValues : table' = Append(table, <<f>>)
       \/ \E f \in FieldValues :
            table # <<>> /\ table' = AppendToLastRow(table, f)
    /\ UNCHANGED <<sep, rendered, reparsed, rtpc>>
    /\ UNCHANGED nonRtVars

RtRender ==
    /\ rtpc = "table"
    /\ \E nl \in LineTerminators :
          /\ sep' = nl
          /\ rendered' = RenderTable(table, nl)
    /\ rtpc' = "text"
    /\ UNCHANGED <<table, reparsed>>
    /\ UNCHANGED nonRtVars

RtParse ==
    /\ rtpc = "text"
    /\ reparsed' = parseCsvWithQuotes(rendered)
    /\ rtpc' = "parsed"
    /\ UNCHANGED <<table, sep, rendered>>
    /\ UNCHANGED nonRtVars

RtNext == RtGrow \/ RtRender \/ RtParse

RoundTripSpec == RtInit /\ [][RtNext]_vars

Fields(t) == UNION {{t[r][c] : c \in DOMAIN t[r]} : r \in DOMAIN t}

Chars(s) == {s[k] : k \in DOMAIN s}

NoDelimiters(t) == \A f \in Fields(t) : Chars(f) \cap {SEMI, LF, CR} = {}

\* C6 as stated: a table (every row with at least one field) whose fields
\* hold no `;` and no line terminator is returned unchanged by rendering and
\* tokenizing.
C6_RoundTripAsStated ==
    (/\ rtpc = "parsed"
     /\ NoDelimiters(table)
     /\ \A r \in DOMAIN table : table[r] # <<>>) => reparsed = table

\* The rendering survives the tokenizer's trim, quote handling and filter.
RoundTripSafe(t) ==
    /\ NoDelimiters(t)
    /\ \A f \in Fields(t) : QUOTE \notin Chars(f)
    /\ \A r \in DOMAIN t : t[r] # <<>> /\ t[r] # << <<>> >>
    /\ t # <<>> =>
          /\ t[1][1] = <<>> \/ ~IsSpace(Head(t[1][1]))
          /\ Last(Last(t)) = <<>> \/ ~IsSpace(Last(Last(Last(t))))

\* C6 (amended): a table whose rows each have at least one field, whose fields
\* hold no `;`, no line terminator and no quote character, with no row that
\* is a single empty field, no whitespace at the start of its first field and
\* none at the end of its last field, is returned unchanged by rendering and
\* tokenizing, whichever line terminator joins the rows.
C6_RoundTrip ==
    (rtpc = "parsed" /\ RoundTripSafe(table)) => reparsed = table

C6_Witness ==
    /\ rtpc = "parsed" /\ RoundTripSafe(table) /\ sep = <<CR, LF>>
    /\ Len(table) = 2 /\ Len(table[1]) = 2 /\ table[1][1] = <<>>
    /\ reparsed = table

----------------------------------------------------------------------------
(* extractInfoWithoutAI *)

Digits == {"0", "1", "2", "3", "4", "5", "6", "7", "8", "9"}

Letters ==
    {"a", "b", "c", "d", "e", "f", "g", "h", "i", "j", "k", "l", "m", "n",
     "o", "p", "q", "r", "s", "t", "u", "v", "w", "x", "y", "z",
     "A", "B", "C", "D", "E", "F", "G", "H", "I", "J", "K", "L", "M", "N",
     "O", "P", "Q", "R", "S", "T", "U", "V", "W", "X", "Y", "Z"}

HYPHEN == "-"

\* \d
IsDigit(c) == c \in Digits

\* \w
IsWordChar(c) == c \in Digits \cup Letters \cup {"_"}

\* the bounds of \d{4,8} and the group size of \d{3}-\d{3}
MinCodeDigits == 4
MaxCodeDigits == 8
GroupDigits == 3

WordAt(m, k) == 0 <= k /\ k < Len(m) /\ IsWordChar(At(m, k))

\* \b at offset k: exactly one of m[k-1], m[k] is a word character
WordBoundary(m, k) == WordAt(m, k - 1) # WordAt(m, k)

DigitAt(m, k) == 0 <= k /\ k < Len(m) /\ IsDigit(At(m, k))

\* the number of digits \d{0,max} consumes at offset k
RECURSIVE DigitRun(_, _, _)
DigitRun(m, k, max) ==
    IF max > 0 /\ DigitAt(m, k) THEN 1 + DigitRun(m, k + 1, max - 1) ELSE 0

\* \d{4,8}\b with n digits consumed: the quantifier gives digits back until
\* the boundary matches; the length matched, 0 when there is none
\* Variant: the trailing \b is missing from the pattern.
BacktrackDigitsUnbounded(m, p, n) ==
    IF n < MinCodeDigits THEN 0 ELSE n

RECURSIVE BacktrackDigits(_, _, _)
BacktrackDigits(m, p, n) ==
    IF n < MinCodeDigits THEN 0
    ELSE IF WordBoundary(m, p + n) THEN n
    ELSE BacktrackDigits(m, p, n - 1)

MatchDigits(m, p) == BacktrackDigits(m, p, DigitRun(m, p, MaxCodeDigits))

\* \d{3}-\d{3}\b at offset p
MatchHyphenated(m, p) ==
    IF /\ DigitRun(m, p, GroupDigits) = GroupDigits
       /\ p + GroupDigits < Len(m) /\ At(m, p + GroupDigits) = HYPHEN
       /\ DigitRun(m, p + GroupDigits + 1, GroupDigits) = GroupDigits
       /\ WordBoundary(m, p + 2 * GroupDigits + 1)
    THEN 2 * GroupDigits + 1
    ELSE 0

\* /\b(\d{4,8}|\d{3}-\d{3})\b/ tried at offset p: the length matched or 0
CodeMatchAt(m, p) ==
    IF ~WordBoundary(m, p) THEN 0
    ELSE IF MatchDigits(m, p) > 0 THEN MatchDigits(m, p)
    ELSE MatchHyphenated(m, p)

\* Variant: the match that starts last is taken (scan from offset q down).
RECURSIVE CodeMatchDownFrom(_, _)
CodeMatchDownFrom(m, q) ==
    IF q < 0 THEN None
    ELSE IF CodeMatchAt(m, q) > 0
         THEN Some(SubSeq(m, q + 1, q + CodeMatchAt(m, q)))
         ELSE CodeMatchDownFrom(m, q - 1)

LastCodeMatch(m, p) == CodeMatchDownFrom(m, Len(m))

\* message.match(codeRegex): the first match at or after offset p
RECURSIVE FirstCodeMatch(_, _)
FirstCodeMatch(m, p) ==
    IF p > Len(m) THEN None
    ELSE IF CodeMatchAt(m, p) > 0
         THEN Some(SubSeq(m, p + 1, p + CodeMatchAt(m, p)))
         ELSE FirstCodeMatch(m, p + 1)

\* Variant: the hyphen is left in the code.
RemoveHyphensNot(s) == s

\* confirmationCode.replace(/-/g, '')
RemoveHyphens(s) == SelectSeq(s, LAMBDA c : c # HYPHEN)

StartsWithAt(m, p, lit) ==
    p + Len(lit) <= Len(m) /\ SubSeq(m, p + 1, p + Len(lit)) = lit

HttpPrefix  == <<"h", "t", "t", "p", ":", "/", "/">>
HttpsPrefix == <<"h", "t", "t", "p", "s", ":", "/", "/">>

\* Variant: a quote character does not end the link.
IsLinkCharSpacesOnly(c) == ~IsSpace(c)

\* [^\s"']
IsLinkChar(c) == ~IsSpace(c) /\ c \notin {QUOTE, "'"}

RECURSIVE LinkRun(_, _)
LinkRun(m, k) ==
    IF k < Len(m) /\ IsLinkChar(At(m, k)) THEN 1 + LinkRun(m, k + 1) ELSE 0

\* https?:\/\/ at offset p: the length matched or 0
LinkPrefixAt(m, p) ==
    IF StartsWithAt(m, p, HttpsPrefix) THEN Len(HttpsPrefix)
    ELSE IF StartsWithAt(m, p, HttpPrefix) THEN Len(HttpPrefix)
    ELSE 0

\* /(https?:\/\/[^\s"']+)/ tried at offset p: the length matched or 0
LinkMatchAt(m, p) ==
    LET h == LinkPrefixAt(m, p) IN
    IF h > 0 /\ LinkRun(m, p + h) > 0 THEN h + LinkRun(m, p + h) ELSE 0

\* message.match(linkRegex): the first match at or after offset p
RECURSIVE FirstLinkMatch(_, _)
FirstLinkMatch(m, p) ==
    IF p > Len(m) THEN None
    ELSE IF LinkMatchAt(m, p) > 0
         THEN Some(SubSeq(m, p + 1, p + LinkMatchAt(m, p)))
         ELSE FirstLinkMatch(m, p + 1)

\* Variant: the link is looked for first and the code scan runs on what is
\* left of the message when the link is cut out.
extractInfoLinkCut(m) ==
    LET links == FirstLinkMatch(m, 0)
        stop  == IF links = None THEN 0
                 ELSE CHOOSE q \in 0..Len(m) :
                        /\ q >= Len(links[1])
                        /\ SubSeq(m, q - Len(links[1]) + 1, q) = links[1]
                        /\ \A r \in 0..(q - 1) :
                              ~(r >= Len(links[1]) /\
                                SubSeq(m, r - Len(links[1]) + 1, r) = links[1])
        rest  == IF links = None THEN m
                 ELSE SubSeq(m, 1, stop - Len(links[1])) \o <<SP>>
                      \o SubSeq(m, stop + 1, Len(m))
        codes == FirstCodeMatch(rest, 0)
    IN  [confirmationCode |->
            IF codes # None /\ codes[1] # <<>>
            THEN Some(RemoveHyphens(codes[1]))
            ELSE codes,
         link |-> links]

extractInfoWithoutAI(m) ==
    LET codes == FirstCodeMatch(m, 0)
        links == FirstLinkMatch(m, 0)
    IN  [confirmationCode |->
            IF codes # None /\ codes[1] # <<>>
            THEN Some(RemoveHyphens(codes[1]))
            ELSE codes,
         link |-> links]

(* Messages: the spec's examples, and every concatenation of at most
   MaxChunks of the chunks below *)

MaxChunks == 4

Chunks ==
    {<<"7">>, <<"1", "2", "3">>, <<"4", "8", "2", "9">>, <<HYPHEN>>, <<"a">>,
     <<SP>>, HttpPrefix, HttpsPrefix, <<QUOTE>>}

\* Your code is 482910, expires in 5 minutes
ExPlainCode ==
    <<"Y", "o", "u", "r", SP, "c", "o", "d", "e", SP, "i", "s", SP,
      "4", "8", "2", "9", "1", "0", ",", SP,
      "e", "x", "p", "i", "r", "e", "s", SP, "i", "n", SP, "5", SP,
      "m", "i", "n", "u", "t", "e", "s">>
\* Code: 123-456
ExHyphenCode ==
    <<"C", "o", "d", "e", ":", SP, "1", "2", "3", HYPHEN, "4", "5", "6">>
\* Welcome to the service
ExNoCode ==
    <<"W", "e", "l", "c", "o", "m", "e", SP, "t", "o", SP, "t", "h", "e", SP,
      "s", "e", "r", "v", "i", "c", "e">>
\* Verify at https://ex.am/ple?x=1 now
ExLink ==
    <<"V", "e", "r", "i", "f", "y", SP, "a", "t", SP>> \o HttpsPrefix \o
    <<"e", "x", ".", "a", "m", "/", "p", "l", "e", "?", "x", "=", "1", SP,
      "n", "o", "w">>

ExampleMessages == {ExPlainCode, ExHyphenCode, ExNoCode, ExLink}

ExInit ==
    /\ \/ message = <<>> /\ expc = "build"
       \/ message \in ExampleMessages /\ expc = "given"
    /\ nchunks = 0
    /\ info = [confirmationCode |-> None, link |-> None]
    /\ ScanIdle
    /\ RtIdle
    /\ SmsIdle
    /\ CallIdle
    /\ ConcIdle
    /\ FrontIdle
    /\ DbIdle

\* The message under test grows by one chunk.
ExGrow ==
    /\ expc = "build"
    /\ nchunks < MaxChunks
    /\ \E c \in Chunks : message' = message \o c
    /\ nchunks' = nchunks + 1
    /\ UNCHANGED <<info, expc>>
    /\ UNCHANGED nonExVars

ExExtract ==
    /\ expc \in {"build", "given"}
    /\ info' = extractInfoWithoutAI(message)
    /\ expc' = "done"
    /\ UNCHANGED <<message, nchunks>>
    /\ UNCHANGED nonExVars

ExNext == ExGrow \/ ExExtract

ExtractSpec == ExInit /\ [][ExNext]_vars

(* Claims about the extractor *)

\* The substring of length n at offset p is a run of 4 to 8 digits, or three
\* digits, a hyphen and three digits, with a word boundary on each side.
QualifiesAsCode(m, p, n) ==
    /\ p + n <= Len(m)
    /\ WordBoundary(m, p) /\ WordBoundary(m, p + n)
    /\ \/ /\ n \in 4..8
          /\ \A k \in p..(p + n - 1) : At(m, k) \in Digits
       \/ /\ n = 7
          /\ \A k \in (p..(p + 2)) \cup ((p + 4)..(p + 6)) : At(m, k) \in Digits
          /\ At(m, p + 3) = "-"

CodeCandidates(m) ==
    {c \in (0..Len(m)) \X (4..8) :
        DigitAt(m, c[1]) /\ QualifiesAsCode(m, c[1], c[2])}

\* C10: when some substring of the message qualifies as a code, the
\* confirmation code is the digits of the qualifying substring that starts
\* earliest, whatever follows it in the message; "Your code is 482910,
\* expires in 5 minutes" gives 482910.
C10_LeftmostCode ==
    expc = "done" =>
        /\ LET cands == CodeCandidates(message) IN
           \A c \in cands :
              (\A d \in cands : c[1] <= d[1]) =>
                  info.confirmationCode =
                      Some(SelectSeq(SubSeq(message, c[1] + 1, c[1] + c[2]),
                                     IsDigit))
        /\ message = ExPlainCode =>
              info.confirmationCode = Some(<<"4", "8", "2", "9", "1", "0">>)

\* a message with two qualifying substrings, the later one a different code
C10_Witness ==
    /\ expc = "done"
    /\ \E c, d \in CodeCandidates(message) :
          /\ c[1] < d[1]
          /\ SubSeq(message, c[1] + 1, c[1] + c[2])
                # SubSeq(message, d[1] + 1, d[1] + d[2])
          /\ info.confirmationCode = Some(SubSeq(message, c[1] + 1, c[1] + c[2]))

----------------------------------------------------------------------------
(* fetchSmsData, from the response body to the returned value *)

UpperCase ==
    <<"A", "B", "C", "D", "E", "F", "G", "H", "I", "J", "K", "L", "M", "N",
      "O", "P", "Q", "R", "S", "T", "U", "V", "W", "X", "Y", "Z">>
LowerCase ==
    <<"a", "b", "c", "d", "e", "f", "g", "h", "i", "j", "k", "l", "m", "n",
      "o", "p", "q", "r", "s", "t", "u", "v", "w", "x", "y", "z">>

ToLowerChar(c) ==
    IF \E k \in DOMAIN UpperCase : UpperCase[k] = c
    THEN LowerCase[CHOOSE k \in DOMAIN UpperCase : UpperCase[k] = c]
    ELSE c

\* String.prototype.toLowerCase
ToLowerCase(str) == [k \in DOMAIN str |-> ToLowerChar(str[k])]

\* h => h.trim().toLowerCase()
Normalise(h) == ToLowerCase(Trim(h))

\* Variant: the last index holding x is taken.
IndexOfLast(arr, x) ==
    IF \E k \in DOMAIN arr : arr[k] = x
    THEN (CHOOSE k \in DOMAIN arr :
            arr[k] = x /\ \A j \in DOMAIN arr : arr[j] = x => k >= j) - 1
    ELSE -1

\* Array.prototype.indexOf: the first index holding x, -1 when there is none
IndexOf(arr, x) ==
    IF \E k \in DOMAIN arr : arr[k] = x
    THEN (CHOOSE k \in DOMAIN arr :
            arr[k] = x /\ \A j \in DOMAIN arr : arr[j] = x => k <= j) - 1
    ELSE -1

\* The column names the SMS mapping looks up.
ColDatetime    == <<"d", "a", "t", "e", "t", "i", "m", "e">>
ColSenderId    == <<"s", "e", "n", "d", "e", "r", "i", "d">>
ColBNumber     == <<"b", "-", "n", "u", "m", "b", "e", "r">>
ColMccMnc      == <<"m", "c", "c", "/", "m", "n", "c">>
ColDestination == <<"d", "e", "s", "t", "i", "n", "a", "t", "i", "o", "n">>
ColRate        == <<"r", "a", "t", "e">>
ColCurrency    == <<"c", "u", "r", "r", "e", "n", "c", "y">>
ColMessage     == <<"m", "e", "s", "s", "a", "g", "e">>

\* const columnMap = { dateTime: headers.indexOf('datetime'), ... }
MapColumns(hs) ==
    [dateTime    |-> IndexOf(hs, ColDatetime),
     senderId    |-> IndexOf(hs, ColSenderId),
     phone       |-> IndexOf(hs, ColBNumber),
     mccMnc      |-> IndexOf(hs, ColMccMnc),
     destination |-> IndexOf(hs, ColDestination),
     rate        |-> IndexOf(hs, ColRate),
     currency    |-> IndexOf(hs, ColCurrency),
     message     |-> IndexOf(hs, ColMessage)]

\* Variant: the error needs both required columns to be absent.
MissingRequiredBoth(cm) == cm.dateTime = -1 /\ cm.message = -1

\* columnMap.dateTime === -1 || columnMap.message === -1
MissingRequired(cm) == cm.dateTime = -1 \/ cm.message = -1

\* Variant: the length test is off by one.
ShortRowOffByOne(parts, cm) == Len(parts) <= cm.message + 1

\* parts.length <= columnMap.message
ShortRow(parts, cm) == Len(parts) <= cm.message

\* Variant: a negative index counts from the end of the row.
FieldFromEnd(parts, idx) ==
    IF idx < 0 /\ Len(parts) + idx >= 0 THEN Some(parts[Len(parts) + idx + 1])
    ELSE IF 0 <= idx /\ idx < Len(parts) THEN Some(parts[idx + 1])
    ELSE None

\* parts[idx]: undefined when idx is -1 or past the end of the row
Field(parts, idx) ==
    IF 0 <= idx /\ idx < Len(parts) THEN Some(parts[idx + 1]) ELSE None

\* the object pushed to records; msg is parts[columnMap.message]
MakeRecord(parts, cm, msg) ==
    [dateTime      |-> Field(parts, cm.dateTime),
     senderId      |-> Field(parts, cm.senderId),
     phone         |-> Field(parts, cm.phone),
     mccMnc        |-> Field(parts, cm.mccMnc),
     destination   |-> Field(parts, cm.destination),
     rate          |-> Field(parts, cm.rate),
     currency      |-> Field(parts, cm.currency),
     message       |-> msg,
     extractedInfo |-> extractInfoWithoutAI(msg)]

MissingColumnsError ==
    "CSV response is missing required columns ('datetime', 'message')."

\* message.match on an undefined message, caught by the catch clause
UndefinedMessageError == "Cannot read properties of undefined (reading 'match')"

\* handleApiError: the mapped custom message, the API's message, or the
\* status line with the raw text
ApiErrors == {"customMessage", "API Error: message", "API Error: status"}

Ok(recs) == [data |-> Some(recs), error |-> None]

\* Variant: the records assembled so far are returned with the error.
ErrWithRecords(e) == [data |-> Some(records), error |-> Some(e)]

Err(e)   == [data |-> None, error |-> Some(e)]

(* The remote API: a header line, data lines, and the body it answers with *)

MaxHeaderCols == 3
MaxDataCols == 2
MaxDataRows == 2

HeaderLabels ==
    {ColDatetime, ColMessage, <<"M", "e", "s", "s", "a", "g", "e", SP>>, ColRate}

DigitOf == <<"1", "2", "3", "4", "5", "6", "7", "8", "9">>

\* The field at line r, column c: r<r> <cccc>
Cell(r, c) == <<"r", DigitOf[r], SP, DigitOf[c], DigitOf[c], DigitOf[c], DigitOf[c]>>

SmsLines ==
    (IF smsHeader = <<>> THEN <<>> ELSE <<smsHeader>>)
    \o [r \in DOMAIN smsShape |-> [c \in 1..smsShape[r] |-> Cell(r, c)]]

JsonBodies == {<<"{", "}">>, <<SP, "{", "}", LF>>}

\* bodies that are neither lines of labelled fields nor JSON: "" and ;
BlankBodies == {<<QUOTE, QUOTE>>, <<SEMI>>}

SmsInit ==
    /\ smsHeader = <<>> /\ smsShape = <<>> /\ csvText = <<>>
    /\ allRows = <<>> /\ headers = <<>> /\ dataRows = <<>>
    /\ columnMap = NoColumnMap /\ records = <<>> /\ rowIdx = 0
    /\ smsResult = [data |-> None, error |-> None]
    /\ smspc = "remote"
    /\ ScanIdle
    /\ RtIdle
    /\ ExIdle
    /\ CallIdle
    /\ ConcIdle
    /\ FrontIdle
    /\ DbIdle

SmsStep(next) ==
    /\ smspc' = next
    /\ UNCHANGED nonSmsVars

SmsRemoteLabel ==
    /\ smspc = "remote" /\ smsShape = <<>>
    /\ Len(smsHeader) < MaxHeaderCols
    /\ \E l \in HeaderLabels : smsHeader' = Append(smsHeader, l)
    /\ UNCHANGED <<smsShape, csvText, allRows, headers, dataRows, columnMap,
                   records, rowIdx, smsResult>>
    /\ SmsStep("remote")

SmsRemoteLine ==
    /\ smspc = "remote"
    /\ Len(smsShape) < MaxDataRows
    /\ \E n \in 0..MaxDataCols : smsShape' = Append(smsShape, n)
    /\ UNCHANGED <<smsHeader, csvText, allRows, headers, dataRows, columnMap,
                   records, rowIdx, smsResult>>
    /\ SmsStep("remote")

\* const csvText = await response.text()
SmsRespond ==
    /\ smspc = "remote"
    /\ csvText' = RenderTable(SmsLines, <<LF>>)
    /\ UNCHANGED <<smsHeader, smsShape, allRows, headers, dataRows, columnMap,
                   records, rowIdx, smsResult>>
    /\ SmsStep("body")

SmsRespondJson ==
    /\ smspc = "remote" /\ smsHeader = <<>> /\ smsShape = <<>>
    /\ csvText' \in JsonBodies \cup BlankBodies
    /\ UNCHANGED <<smsHeader, smsShape, allRows, headers, dataRows, columnMap,
                   records, rowIdx, smsResult>>
    /\ SmsStep("body")

EmptyBody(body) == body = <<>> \/ Trim(body) = <<>>

\* Variant: the body is not trimmed before its first character is tested.
JsonBodyUntrimmed(body) == body # <<>> /\ Head(body) = "{"

JsonBody(body) == Trim(body) # <<>> /\ Head(Trim(body)) = "{"

\* if (!csvText || csvText.trim() === '') return { data: [] }
SmsEmptyBody ==
    /\ smspc = "body" /\ EmptyBody(csvText)
    /\ smsResult' = Ok(<<>>)
    /\ UNCHANGED <<smsHeader, smsShape, csvText, allRows, headers, dataRows,
                   columnMap, records, rowIdx>>
    /\ SmsStep("done")

\* if (csvText.trim().startsWith('{')) return handleApiError(clonedResponse)
SmsJsonBody ==
    /\ smspc = "body" /\ ~EmptyBody(csvText) /\ JsonBody(csvText)
    /\ \E e \in ApiErrors : smsResult' = Err(e)
    /\ UNCHANGED <<smsHeader, smsShape, csvText, allRows, headers, dataRows,
                   columnMap, records, rowIdx>>
    /\ SmsStep("done")

\* const allRows = parseCsvWithQuotes(csvText)
SmsTokenize ==
    /\ smspc = "body" /\ ~EmptyBody(csvText) /\ ~JsonBody(csvText)
    /\ allRows' = parseCsvWithQuotes(csvText)
    /\ UNCHANGED <<smsHeader, smsShape, csvText, headers, dataRows, columnMap,
                   records, rowIdx, smsResult>>
    /\ SmsStep("parsed")

\* if (allRows.length < 2) return { data: [] }
SmsNoData ==
    /\ smspc = "parsed" /\ Len(allRows) < 2
    /\ smsResult' = Ok(<<>>)
    /\ UNCHANGED <<smsHeader, smsShape, csvText, allRows, headers, dataRows,
                   columnMap, records, rowIdx>>
    /\ SmsStep("done")

\* lines 238-251: headers, dataRows, records and columnMap are set up
SmsMapHeaders ==
    /\ smspc = "parsed" /\ ~(Len(allRows) < 2)
    /\ headers' = [k \in DOMAIN allRows[1] |-> Normalise(allRows[1][k])]
    /\ dataRows' = Tail(allRows)
    /\ records' = <<>>
    /\ columnMap' = MapColumns(headers')
    /\ UNCHANGED <<smsHeader, smsShape, csvText, allRows, rowIdx, smsResult>>
    /\ SmsStep("mapped")

\* lines 253-255: a required column is missing
SmsMissingColumns ==
    /\ smspc = "mapped" /\ MissingRequired(columnMap)
    /\ smsResult' = Err(MissingColumnsError)
    /\ UNCHANGED <<smsHeader, smsShape, csvText, allRows, headers, dataRows,
                   columnMap, records, rowIdx>>
    /\ SmsStep("done")

\* both required columns resolved: the for-of loop starts
SmsEnterLoop ==
    /\ smspc = "mapped" /\ ~MissingRequired(columnMap)
    /\ rowIdx' = 0
    /\ UNCHANGED <<smsHeader, smsShape, csvText, allRows, headers, dataRows,
                   columnMap, records, smsResult>>
    /\ SmsStep("loop")

\* lines 258-260: continue
SmsSkipRow ==
    /\ smspc = "loop" /\ rowIdx < Len(dataRows)
    /\ ShortRow(dataRows[rowIdx + 1], columnMap)
    /\ rowIdx' = rowIdx + 1
    /\ UNCHANGED <<smsHeader, smsShape, csvText, allRows, headers, dataRows,
                   columnMap, records, smsResult>>
    /\ SmsStep("loop")

\* lines 262-275: the record is pushed; an undefined message makes
\* extractInfoWithoutAI throw, which the catch clause turns into an error
SmsPushRow ==
    /\ smspc = "loop" /\ rowIdx < Len(dataRows)
    /\ ~ShortRow(dataRows[rowIdx + 1], columnMap)
    /\ LET parts == dataRows[rowIdx + 1]
           msg   == Field(parts, columnMap.message)
       IN  IF msg = None
           THEN /\ smsResult' = Err(UndefinedMessageError)
                /\ UNCHANGED <<records, rowIdx>>
                /\ SmsStep("done")
           ELSE /\ records' = Append(records, MakeRecord(parts, columnMap, msg[1]))
                /\ rowIdx' = rowIdx + 1
                /\ UNCHANGED smsResult
                /\ SmsStep("loop")
    /\ UNCHANGED <<smsHeader, smsShape, csvText, allRows, headers, dataRows,
                   columnMap>>

\* return { data: records }
SmsReturn ==
    /\ smspc = "loop" /\ ~(rowIdx < Len(dataRows))
    /\ smsResult' = Ok(records)
    /\ UNCHANGED <<smsHeader, smsShape, csvText, allRows, headers, dataRows,
                   columnMap, records, rowIdx>>
    /\ SmsStep("done")

SmsNext ==
    \/ SmsRemoteLabel
    \/ SmsRemoteLine
    \/ SmsRespond
    \/ SmsRespondJson
    \/ SmsEmptyBody
    \/ SmsJsonBody
    \/ SmsTokenize
    \/ SmsNoData
    \/ SmsMapHeaders
    \/ SmsMissingColumns
    \/ SmsEnterLoop
    \/ SmsSkipRow
    \/ SmsPushRow
    \/ SmsReturn

SmsSpec == SmsInit /\ [][SmsNext]_vars

(* Claims about the SMS mapping *)

\* The header row has a column whose trimmed, lower-cased label is name.
HasColumn(hdr, name) ==
    \E k \in DOMAIN hdr : ToLowerCase(Trim(hdr[k])) = name

\* The 0-based index of the first such column.
FirstColumn(hdr, name) ==
    (CHOOSE k \in DOMAIN hdr :
        /\ ToLowerCase(Trim(hdr[k])) = name
        /\ \A j \in 1..(k - 1) : ToLowerCase(Trim(hdr[j])) # name) - 1

RequiredColumnAbsent(hdr) ==
    ~HasColumn(hdr, ColDatetime) \/ ~HasColumn(hdr, ColMessage)

\* C8 as stated: whenever the header row of the parsed table lacks datetime
\* or message, the fixed error is returned and no records.
C8_MissingHeaderAsStated ==
    (smspc = "done" /\ Len(allRows) >= 1 /\ RequiredColumnAbsent(allRows[1])) =>
        smsResult = Err(MissingColumnsError)

\* C8 (amended): whenever the parsed table has at least two rows and its
\* header row lacks datetime or message, the fixed error is returned and no
\* records.
C8_MissingHeader ==
    (smspc = "done" /\ Len(allRows) >= 2 /\ RequiredColumnAbsent(allRows[1])) =>
        smsResult = Err(MissingColumnsError)

C8_Witness ==
    /\ smspc = "done" /\ Len(allRows) >= 2
    /\ HasColumn(allRows[1], ColDatetime) /\ ~HasColumn(allRows[1], ColMessage)
    /\ smsResult.error = Some(MissingColumnsError) /\ smsResult.data = None

\* The data rows (1-based positions in dataRows) with more fields than the
\* message column index.
LongRows ==
    {k \in 1..(Len(allRows) - 1) :
        Len(allRows[k + 1]) > FirstColumn(allRows[1], ColMessage)}

\* C9: when both required columns resolve, the returned records are the data
\* rows with more fields than the message column index, one record per such
\* row and in data-row order; shorter rows are skipped and no error is
\* returned.
C9_ShortRowsSkipped ==
    (/\ smspc = "done" /\ Len(allRows) >= 2
     /\ ~RequiredColumnAbsent(allRows[1])) =>
        /\ smsResult.error = None
        /\ smsResult.data # None
        /\ LET recs == smsResult.data[1]
               mcol == FirstColumn(allRows[1], ColMessage)
               dcol == FirstColumn(allRows[1], ColDatetime)
           IN  /\ Len(recs) = Cardinality(LongRows)
               /\ \A k \in LongRows :
                     LET rec == recs[Cardinality({j \in LongRows : j <= k})]
                         parts == allRows[k + 1]
                     IN  /\ rec.message = parts[mcol + 1]
                         /\ rec.dateTime =
                               IF dcol < Len(parts) THEN Some(parts[dcol + 1])
                               ELSE None

C9_Witness ==
    /\ smspc = "done" /\ Len(allRows) = 3
    /\ ~RequiredColumnAbsent(allRows[1])
    /\ LongRows = {2}
    /\ smsResult.data # None /\ Len(smsResult.data[1]) = 1
    /\ smsResult.data[1][1].message = allRows[3][FirstColumn(allRows[1], ColMessage) + 1]

\* C11: a first match of the form ddd-ddd is returned as its six digits,
\* the hyphen removed; every returned confirmation code consists of decimal
\* digits only and is 4 to 8 characters long; "Code: 123-456" gives 123456.
C11_HyphenStripped ==
    expc = "done" =>
        /\ LET cands == CodeCandidates(message) IN
           \A c \in cands :
              ((\A d \in cands : c[1] <= d[1]) /\ At(message, c[1] + 3) = "-") =>
                  info.confirmationCode =
                      Some(SubSeq(message, c[1] + 1, c[1] + 3)
                           \o SubSeq(message, c[1] + 5, c[1] + 7))
        /\ info.confirmationCode # None =>
              /\ Len(info.confirmationCode[1]) \in 4..8
              /\ \A k \in DOMAIN info.confirmationCode[1] :
                    info.confirmationCode[1][k] \in Digits
        /\ message = ExHyphenCode =>
              info.confirmationCode = Some(<<"1", "2", "3", "4", "5", "6">>)

C11_Witness ==
    /\ expc = "done"
    /\ message = <<"1", "2", "3", "-", "1", "2", "3", SP>>
    /\ info.confirmationCode = Some(<<"1", "2", "3", "1", "2", "3">>)

\* C12: the confirmation code is absent exactly when no substring of the
\* message qualifies as a code; a message without digits has no code;
\* "Welcome to the service" has none.
C12_AbsentCode ==
    expc = "done" =>
        /\ (info.confirmationCode = None) <=> (CodeCandidates(message) = {})
        /\ (\A k \in DOMAIN message : message[k] \notin Digits) =>
              info.confirmationCode = None
        /\ message = ExNoCode => info.confirmationCode = None

\* a run of nine digits: digits, but no code
C12_Witness ==
    /\ expc = "done" /\ Len(message) = 9
    /\ \A k \in DOMAIN message : message[k] \in Digits
    /\ info.confirmationCode = None

LinkTerminators == {SP, LF, CR, "\t", QUOTE, "'"}

BeginsLink(m, p) ==
    StartsWithAt(m, p, HttpPrefix) \/ StartsWithAt(m, p, HttpsPrefix)

SchemeLen(m, p) ==
    IF StartsWithAt(m, p, HttpsPrefix) THEN 8 ELSE 7

\* the offset of the next whitespace or quote character at or after p, or
\* the length of the message
LinkEnd(m, p) ==
    CHOOSE k \in p..Len(m) :
        /\ k = Len(m) \/ At(m, k) \in LinkTerminators
        /\ \A j \in p..(k - 1) : At(m, j) \notin LinkTerminators

LinkStartsAsStated(m) == {p \in 0..Len(m) : BeginsLink(m, p)}

\* the scheme is followed by at least one character of the link
LinkStarts(m) ==
    {p \in 0..Len(m) : BeginsLink(m, p) /\ LinkEnd(m, p) > p + SchemeLen(m, p)}

LinkFrom(m, starts) ==
    IF starts = {} THEN None
    ELSE LET p == CHOOSE q \in starts : \A r \in starts : q <= r
         IN  Some(SubSeq(m, p + 1, LinkEnd(m, p)))

\* C13 as stated: the link is the first substring that begins with http://
\* or https://, up to the next whitespace or quote character or the end of
\* the message, and is absent when there is no such substring.
C13_FirstLinkAsStated ==
    expc = "done" => info.link = LinkFrom(message, LinkStartsAsStated(message))

\* C13: the link is the first substring that begins with http:// or
\* https:// followed by at least one character that is neither whitespace
\* nor a quote character; it extends up to the next whitespace or quote
\* character or the end of the message, and is absent when there is no such
\* substring. A returned link starts with http:// or https:// and contains
\* no whitespace and no quote character; "Verify at https://ex.am/ple?x=1 now"
\* gives https://ex.am/ple?x=1.
C13_FirstLink ==
    expc = "done" =>
        /\ info.link = LinkFrom(message, LinkStarts(message))
        /\ info.link # None =>
              /\ BeginsLink(info.link[1], 0)
              /\ \A k \in DOMAIN info.link[1] :
                    info.link[1][k] \notin LinkTerminators
        /\ message = ExLink => info.link = Some(SubSeq(ExLink, 11, 31))

\* a scheme with nothing after it is passed over for a later link, which a
\* quote character ends
C13_Witness ==
    /\ expc = "done"
    /\ message = HttpPrefix \o <<SP>> \o HttpsPrefix \o <<"a">>
    /\ info.link = Some(HttpsPrefix \o <<"a">>)

----------------------------------------------------------------------------
(* A series of extractInfoWithoutAI calls *)

MaxCalls == 2

\* 4829 123-123
ExTwoCodes ==
    <<"4", "8", "2", "9", SP, "1", "2", "3", HYPHEN, "1", "2", "3">>
\* http://a https://aa
ExTwoLinks == HttpPrefix \o <<"a", SP>> \o HttpsPrefix \o <<"a", "a">>

CallMessages ==
    ExampleMessages \cup
    {ExTwoCodes, ExTwoLinks, <<"4", "8", "2", "9">>, <<"a">>}

\* the offset just past the first match at or after offset p, 0 without one
RECURSIVE FirstCodeStop(_, _)
FirstCodeStop(m, p) ==
    IF p > Len(m) THEN 0
    ELSE IF CodeMatchAt(m, p) > 0 THEN p + CodeMatchAt(m, p)
    ELSE FirstCodeStop(m, p + 1)

RECURSIVE FirstLinkStop(_, _)
FirstLinkStop(m, p) ==
    IF p > Len(m) THEN 0
    ELSE IF LinkMatchAt(m, p) > 0 THEN p + LinkMatchAt(m, p)
    ELSE FirstLinkStop(m, p + 1)

\* Variant: one pattern object is kept between calls and resumes where its
\* latest scan stopped.
CodeScanStartCarried(prev) == prev

\* The offset a call's code scan starts at.  The pattern object is created
\* by the call (line 124) and String.prototype.match restarts a global
\* pattern at offset 0, so the offset the previous scan stopped at plays no
\* part.
CodeScanStart(prev) == 0

\* The same for the link pattern (line 125).
LinkScanStart(prev) == 0

\* lines 127-138 with the scans started at the given offsets
ExtractFrom(m, codeStart, linkStart) ==
    LET codes == FirstCodeMatch(m, codeStart)
        links == FirstLinkMatch(m, linkStart)
    IN  [confirmationCode |->
            IF codes # None /\ codes[1] # <<>>
            THEN Some(RemoveHyphens(codes[1]))
            ELSE codes,
         link |-> links]

CallInit ==
    /\ callMessage = <<>> /\ callLog = <<>> /\ codeStop = 0 /\ linkStop = 0
    /\ callpc = "ready"
    /\ ScanIdle
    /\ RtIdle
    /\ ExIdle
    /\ SmsIdle
    /\ ConcIdle
    /\ FrontIdle
    /\ DbIdle

\* a caller invokes extractInfoWithoutAI(m)
CallEnter ==
    /\ callpc = "ready"
    /\ Len(callLog) < MaxCalls
    /\ \E m \in CallMessages : callMessage' = m
    /\ callpc' = "entered"
    /\ UNCHANGED <<callLog, codeStop, linkStop>>
    /\ UNCHANGED nonCallVars

\* lines 124-138: the two scans, and the result is returned
CallReturn ==
    /\ callpc = "entered"
    /\ LET cs == CodeScanStart(codeStop)
           ls == LinkScanStart(linkStop)
       IN  /\ callLog' = Append(callLog,
                  [message |-> callMessage,
                   info |-> ExtractFrom(callMessage, cs, ls)])
           /\ codeStop' = FirstCodeStop(callMessage, cs)
           /\ linkStop' = FirstLinkStop(callMessage, ls)
    /\ callpc' = "ready"
    /\ UNCHANGED callMessage
    /\ UNCHANGED nonCallVars

CallNext == CallEnter \/ CallReturn

CallSpec == CallInit /\ [][CallNext]_vars

\* C14: two calls of extractInfoWithoutAI with the same message return the
\* same confirmation code and the same link, whatever calls came before;
\* every call that was entered can return; a call leaves what is outside
\* the call series as it was.
C14_Deterministic ==
    /\ \A a, b \in DOMAIN callLog :
          callLog[a].message = callLog[b].message =>
              callLog[a].info = callLog[b].info
    /\ callpc = "entered" => ENABLED CallReturn
    /\ ScanIdle /\ RtIdle /\ ExIdle /\ SmsIdle /\ ConcIdle

\* the same message a second time, after a call that found a code in it
C14_Witness ==
    /\ Len(callLog) = 2
    /\ callLog[1].message = ExTwoCodes /\ callLog[2].message = ExTwoCodes
    /\ callLog[2].info.confirmationCode = Some(<<"4", "8", "2", "9">>)
    /\ codeStop = 4

----------------------------------------------------------------------------
(* fetchAccessListData, from the response body on.  Its locals carry the
   names of fetchSmsData's locals and are held in the same variables. *)

ColPrice        == <<"p", "r", "i", "c", "e">>
ColAccessOrigin == <<"a", "c", "c", "e", "s", "s", SP, "o", "r", "i", "g", "i", "n">>

\* const columnMap = { price: headers.indexOf('price'), ... }
AccMapColumns(hs) ==
    [price             |-> IndexOf(hs, ColPrice),
     accessOrigin      |-> IndexOf(hs, ColAccessOrigin),
     accessDestination |->
         IndexOf(hs, <<"a", "c", "c", "e", "s", "s", SP, "d", "e", "s", "t", "i", "n", "a", "t", "i", "o", "n">>),
     testNumber        |-> IndexOf(hs, <<"t", "e", "s", "t", SP, "n", "u", "m", "b", "e", "r">>),
     rate              |-> IndexOf(hs, ColRate),
     currency          |-> IndexOf(hs, ColCurrency),
     comment           |-> IndexOf(hs, <<"c", "o", "m", "m", "e", "n", "t">>),
     message           |-> IndexOf(hs, ColMessage),
     limitHour         |-> IndexOf(hs, <<"l", "i", "m", "i", "t", SP, "h", "o", "u", "r">>),
     limitDay          |-> IndexOf(hs, <<"l", "i", "m", "i", "t", SP, "d", "a", "y">>),
     datetime          |-> IndexOf(hs, ColDatetime)]

\* Variant: the price column is required as well.
AccMissingRequiredPrice(cm) == cm.accessOrigin = -1 \/ cm.price = -1

\* columnMap.accessOrigin === -1
AccMissingRequired(cm) == cm.accessOrigin = -1

\* the object pushed to records
AccMakeRecord(parts, cm) ==
    [price             |-> Field(parts, cm.price),
     accessOrigin      |-> Field(parts, cm.accessOrigin),
     accessDestination |-> Field(parts, cm.accessDestination),
     testNumber        |-> Field(parts, cm.testNumber),
     rate              |-> Field(parts, cm.rate),
     currency          |-> Field(parts, cm.currency),
     comment           |-> Field(parts, cm.comment),
     message           |-> Field(parts, cm.message),
     limitHour         |-> Field(parts, cm.limitHour),
     limitDay          |-> Field(parts, cm.limitDay),
     datetime          |-> Field(parts, cm.datetime)]

AccMissingColumnError ==
    "CSV response is missing required column ('access origin')."

AccHeaderLabels ==
    {ColAccessOrigin,
     <<SP, "A", "c", "c", "e", "s", "s", SP, "O", "r", "i", "g", "i", "n">>,
     ColPrice, ColMessage}


AccInit ==
    /\ smsHeader = <<>> /\ smsShape = <<>> /\ csvText = <<>>
    /\ allRows = <<>> /\ headers = <<>> /\ dataRows = <<>>
    /\ columnMap = NoColumnMap /\ records = <<>> /\ rowIdx = 0
    /\ smsResult = [data |-> None, error |-> None]
    /\ smspc = "accRemote"
    /\ ScanIdle
    /\ RtIdle
    /\ ExIdle
    /\ CallIdle
    /\ ConcIdle
    /\ FrontIdle
    /\ DbIdle

AccRemoteLabel ==
    /\ smspc = "accRemote" /\ smsShape = <<>>
    /\ Len(smsHeader) < MaxHeaderCols
    /\ \E l \in AccHeaderLabels : smsHeader' = Append(smsHeader, l)
    /\ UNCHANGED <<smsShape, csvText, allRows, headers, dataRows, columnMap,
                   records, rowIdx, smsResult>>
    /\ SmsStep("accRemote")

AccRemoteLine ==
    /\ smspc = "accRemote"
    /\ Len(smsShape) < MaxDataRows
    /\ \E n \in 0..MaxDataCols : smsShape' = Append(smsShape, n)
    /\ UNCHANGED <<smsHeader, csvText, allRows, headers, dataRows, columnMap,
                   records, rowIdx, smsResult>>
    /\ SmsStep("accRemote")

\* line 339: const csvText = await response.text()
AccRespond ==
    /\ smspc = "accRemote"
    /\ csvText' = RenderTable(SmsLines, <<LF>>)
    /\ UNCHANGED <<smsHeader, smsShape, allRows, headers, dataRows, columnMap,
                   records, rowIdx, smsResult>>
    /\ SmsStep("accBody")

AccRespondOther ==
    /\ smspc = "accRemote" /\ smsHeader = <<>> /\ smsShape = <<>>
    /\ csvText' \in JsonBodies \cup BlankBodies
    /\ UNCHANGED <<smsHeader, smsShape, allRows, headers, dataRows, columnMap,
                   records, rowIdx, smsResult>>
    /\ SmsStep("accBody")

\* lines 340-342
AccEmptyBody ==
    /\ smspc = "accBody" /\ EmptyBody(csvText)
    /\ smsResult' = Ok(<<>>)
    /\ UNCHANGED <<smsHeader, smsShape, csvText, allRows, headers, dataRows,
                   columnMap, records, rowIdx>>
    /\ SmsStep("accDone")

\* lines 344-347
AccJsonBody ==
    /\ smspc = "accBody" /\ ~EmptyBody(csvText) /\ JsonBody(csvText)
    /\ \E e \in ApiErrors : smsResult' = Err(e)
    /\ UNCHANGED <<smsHeader, smsShape, csvText, allRows, headers, dataRows,
                   columnMap, records, rowIdx>>
    /\ SmsStep("accDone")

\* line 349: const allRows = parseCsvWithQuotes(csvText)
AccTokenize ==
    /\ smspc = "accBody" /\ ~EmptyBody(csvText) /\ ~JsonBody(csvText)
    /\ allRows' = parseCsvWithQuotes(csvText)
    /\ UNCHANGED <<smsHeader, smsShape, csvText, headers, dataRows, columnMap,
                   records, rowIdx, smsResult>>
    /\ SmsStep("accParsed")

\* Variant: the header is looked at before the rows are counted.
AccNoDataAfterHeader ==
    /\ smspc = "accParsed" /\ Len(allRows) < 2
    /\ smsResult' =
          IF allRows # <<>> /\ IndexOf(allRows[1], ColAccessOrigin) = -1
          THEN Err(AccMissingColumnError) ELSE Ok(<<>>)
    /\ UNCHANGED <<smsHeader, smsShape, csvText, allRows, headers, dataRows,
                   columnMap, records, rowIdx>>
    /\ SmsStep("accDone")

\* lines 351-353: if (allRows.length < 2) return { data: [] }
AccNoData ==
    /\ smspc = "accParsed" /\ Len(allRows) < 2
    /\ smsResult' = Ok(<<>>)
    /\ UNCHANGED <<smsHeader, smsShape, csvText, allRows, headers, dataRows,
                   columnMap, records, rowIdx>>
    /\ SmsStep("accDone")

\* lines 355-371: headers, dataRows, records and columnMap are set up
AccMapHeaders ==
    /\ smspc = "accParsed" /\ ~(Len(allRows) < 2)
    /\ headers' = [k \in DOMAIN allRows[1] |-> Normalise(allRows[1][k])]
    /\ dataRows' = Tail(allRows)
    /\ records' = <<>>
    /\ rowIdx' = 0
    /\ columnMap' = AccMapColumns(headers')
    /\ UNCHANGED <<smsHeader, smsShape, csvText, allRows, smsResult>>
    /\ SmsStep("accMapped")

\* lines 373-375: the required column is missing
AccMissingColumn ==
    /\ smspc = "accMapped" /\ AccMissingRequired(columnMap)
    /\ smsResult' = Err(AccMissingColumnError)
    /\ UNCHANGED <<smsHeader, smsShape, csvText, allRows, headers, dataRows,
                   columnMap, records, rowIdx>>
    /\ SmsStep("accDone")

\* Variant: a row too short for the access origin column is skipped.
AccPushRowSkipsShort ==
    /\ smspc = "accMapped" /\ ~AccMissingRequired(columnMap)
    /\ rowIdx < Len(dataRows)
    /\ records' =
          IF Len(dataRows[rowIdx + 1]) <= columnMap.accessOrigin THEN records
          ELSE Append(records, AccMakeRecord(dataRows[rowIdx + 1], columnMap))
    /\ rowIdx' = rowIdx + 1
    /\ UNCHANGED <<smsHeader, smsShape, csvText, allRows, headers, dataRows,
                   columnMap, smsResult>>
    /\ SmsStep("accMapped")

\* lines 377-391: one turn of the for-of loop; no row is skipped
AccPushRow ==
    /\ smspc = "accMapped" /\ ~AccMissingRequired(columnMap)
    /\ rowIdx < Len(dataRows)
    /\ records' = Append(records, AccMakeRecord(dataRows[rowIdx + 1], columnMap))
    /\ rowIdx' = rowIdx + 1
    /\ UNCHANGED <<smsHeader, smsShape, csvText, allRows, headers, dataRows,
                   columnMap, smsResult>>
    /\ SmsStep("accMapped")

\* line 393: return { data: records }
AccReturn ==
    /\ smspc = "accMapped" /\ ~AccMissingRequired(columnMap)
    /\ ~(rowIdx < Len(dataRows))
    /\ smsResult' = Ok(records)
    /\ UNCHANGED <<smsHeader, smsShape, csvText, allRows, headers, dataRows,
                   columnMap, records, rowIdx>>
    /\ SmsStep("accDone")

AccNext ==
    \/ AccRemoteLabel
    \/ AccRemoteLine
    \/ AccRespond
    \/ AccRespondOther
    \/ AccEmptyBody
    \/ AccJsonBody
    \/ AccTokenize
    \/ AccNoData
    \/ AccMapHeaders
    \/ AccMissingColumn
    \/ AccPushRow
    \/ AccReturn

AccSpec == AccInit /\ [][AccNext]_vars

\* fetchSmsData or fetchAccessListData is called
FetchSpec == (SmsInit \/ AccInit) /\ [][SmsNext \/ AccNext]_vars

(* Claims about the access-list mapping and the optional columns *)

\* C15 as stated: whenever the header row has no access origin column an
\* error is returned and no records; when it has one, no error is returned
\* whichever other columns are absent.
C15_MissingOriginAsStated ==
    (smspc = "accDone" /\ Len(allRows) >= 1) =>
        IF HasColumn(allRows[1], ColAccessOrigin)
        THEN smsResult.error = None /\ smsResult.data # None
        ELSE smsResult = Err(AccMissingColumnError)

\* C15 (amended): whenever the parsed table has at least two rows and its
\* header row has no access origin column, the fixed error is returned and
\* no records; when the header row has the column, no error is returned and
\* there is one record per data row, whichever other columns are absent.
C15_MissingOrigin ==
    (smspc = "accDone" /\ Len(allRows) >= 2) =>
        IF HasColumn(allRows[1], ColAccessOrigin)
        THEN /\ smsResult.error = None /\ smsResult.data # None
             /\ Len(smsResult.data[1]) = Len(allRows) - 1
        ELSE smsResult = Err(AccMissingColumnError)

C15_Witness ==
    /\ smspc = "accDone" /\ Len(allRows) >= 2
    /\ ~HasColumn(allRows[1], ColAccessOrigin) /\ HasColumn(allRows[1], ColPrice)
    /\ smsResult.error = Some(AccMissingColumnError) /\ smsResult.data = None

\* C16: when the parsed table has fewer than two rows, the next step of
\* fetchSmsData and of fetchAccessListData returns an empty record sequence
\* and no error, whatever the header row contains.
C16_NoDataRows ==
    [][(smspc \in {"parsed", "accParsed"} /\ Len(allRows) < 2) =>
          /\ smsResult' = [data |-> Some(<<>>), error |-> None]
          /\ smspc' \in {"done", "accDone"}]_vars

\* a header row without the required column and no data rows
C16_Witness ==
    /\ smspc = "accDone" /\ Len(allRows) = 1
    /\ ~HasColumn(allRows[1], ColAccessOrigin)
    /\ smsResult.data = Some(<<>>) /\ smsResult.error = None

OptionalColumns ==
    {<<"senderId", ColSenderId>>, <<"phone", ColBNumber>>,
     <<"mccMnc", ColMccMnc>>, <<"destination", ColDestination>>,
     <<"rate", ColRate>>, <<"currency", ColCurrency>>}

\* C17: when both required columns resolve and an optional column is absent
\* from the header, its column index is -1, every returned record has that
\* field undefined, and no error is returned; an optional column that is
\* present, the message and the datetime are taken from the row as usual.
C17_OptionalAbsent ==
    (/\ smspc = "done" /\ Len(allRows) >= 2
     /\ ~RequiredColumnAbsent(allRows[1])) =>
        /\ smsResult.error = None
        /\ smsResult.data # None
        /\ Len(smsResult.data[1]) = Cardinality(LongRows)
        /\ \A o \in OptionalColumns :
              IF ~HasColumn(allRows[1], o[2])
              THEN /\ columnMap[o[1]] = -1
                   /\ \A k \in DOMAIN smsResult.data[1] :
                         smsResult.data[1][k][o[1]] = None
              ELSE /\ columnMap[o[1]] = FirstColumn(allRows[1], o[2])
                   /\ \A k \in LongRows :
                         LET rec == smsResult.data[1]
                                       [Cardinality({j \in LongRows : j <= k})]
                             parts == allRows[k + 1]
                             col == FirstColumn(allRows[1], o[2])
                         IN  rec[o[1]] =
                                IF col < Len(parts) THEN Some(parts[col + 1])
                                ELSE None
        /\ \A k \in LongRows :
              LET rec == smsResult.data[1][Cardinality({j \in LongRows : j <= k})]
                  parts == allRows[k + 1]
                  dcol == FirstColumn(allRows[1], ColDatetime)
              IN  /\ rec.message = parts[FirstColumn(allRows[1], ColMessage) + 1]
                  /\ rec.dateTime =
                        IF dcol < Len(parts) THEN Some(parts[dcol + 1]) ELSE None

\* a record of a table that has a rate column but none of the other
\* optional columns
C17_Witness ==
    /\ smspc = "done" /\ Len(allRows) >= 2
    /\ HasColumn(allRows[1], ColRate) /\ ~HasColumn(allRows[1], ColSenderId)
    /\ columnMap.senderId = -1 /\ columnMap.rate >= 0
    /\ smsResult.data # None /\ Len(smsResult.data[1]) >= 1
    /\ smsResult.data[1][1].senderId = None
    /\ smsResult.data[1][1].rate # None

----------------------------------------------------------------------------
(* Concurrent requests: each runs parseCsvWithQuotes on its own input and
   then extractInfoWithoutAI on its own message; the steps of the requests
   interleave. *)

Requests == {1, 2}

MaxConcLen == 2

ConcInputs == StringsUpTo({"a", QUOTE, LF}, MaxConcLen) \cup {ExNoTerminator}

ConcMessages == {<<"4", "8", "2", "9">>, HttpPrefix \o <<"a">>}

\* Variant: the scanner's locals are module-level and every request uses
\* those of the first.
LocalsShared(r) == requests[1].st

\* let inQuotes, field, row, i and const rows are declared inside the
\* function: each invocation has its own
Locals(r) == requests[r].st

ConcInit ==
    /\ requests \in
          [Requests ->
              {[input |-> x, text |-> <<>>, st |-> ScanInit, result |-> <<>>,
                message |-> <<>>,
                info |-> [confirmationCode |-> None, link |-> None],
                pc |-> "start"] : x \in ConcInputs}]
    /\ ScanIdle
    /\ RtIdle
    /\ ExIdle
    /\ SmsIdle
    /\ CallIdle
    /\ FrontIdle
    /\ DbIdle

\* lines 73-77 in request r
ConcBegin(r) ==
    /\ requests[r].pc = "start"
    /\ requests' = [requests EXCEPT ![r].text = Trim(requests[r].input),
                                    ![r].st = ScanInit,
                                    ![r].pc = "scan"]
    /\ UNCHANGED nonConcVars

\* lines 79-111: one iteration of the loop in request r
ConcStep(r) ==
    /\ requests[r].pc = "scan"
    /\ Locals(r).i < Len(requests[r].text)
    /\ requests' = [requests EXCEPT
                       ![r].st = LoopBody(requests[r].text, Locals(r))]
    /\ UNCHANGED nonConcVars

\* lines 113-119 in request r
ConcFinish(r) ==
    /\ requests[r].pc = "scan"
    /\ ~(Locals(r).i < Len(requests[r].text))
    /\ requests' = [requests EXCEPT
                       ![r].result = FilterRows(Flush(Locals(r)).rows),
                       ![r].pc = "parsed"]
    /\ UNCHANGED nonConcVars

\* lines 122-139 in request r
ConcExtract(r) ==
    /\ requests[r].pc = "parsed"
    /\ \E m \in ConcMessages :
          requests' = [requests EXCEPT ![r].message = m,
                                       ![r].info = extractInfoWithoutAI(m),
                                       ![r].pc = "done"]
    /\ UNCHANGED nonConcVars

ConcNext ==
    \E r \in Requests :
        \/ ConcBegin(r)
        \/ ConcStep(r)
        \/ ConcFinish(r)
        \/ ConcExtract(r)

ConcSpec == ConcInit /\ [][ConcNext]_vars

\* C18: in every interleaving of the requests' steps, the table a request
\* gets is the table parseCsvWithQuotes gives for its input alone, and the
\* information it gets is what extractInfoWithoutAI gives for its message
\* alone; while a request scans, its scanner state is the state a scan of
\* its input alone has at the same offset.
C18_Interleaving ==
    \A r \in Requests :
        /\ requests[r].pc \in {"parsed", "done"} =>
              requests[r].result = parseCsvWithQuotes(requests[r].input)
        /\ requests[r].pc = "done" =>
              requests[r].info = extractInfoWithoutAI(requests[r].message)
        /\ requests[r].pc = "scan" =>
              ScanFrom(requests[r].text, requests[r].st) =
                  ScanFrom(requests[r].text, ScanInit)

\* one request has its table while the other is in the middle of a quoted
\* field
C18_Witness ==
    /\ requests[1].pc = "parsed"
    /\ requests[1].input = ExNoTerminator
    /\ requests[1].result = << << <<"a">>, <<"b">> >> >>
    /\ requests[2].pc = "scan"
    /\ requests[2].st.inQuotes /\ requests[2].st.i = 1

----------------------------------------------------------------------------
(* Relations between the tables of related inputs *)

\* C19 as stated: an input whose scan ends inside a quoted section gives the
\* table of that input with a closing quote appended.
C19_UnterminatedAsStated ==
    (pc = "done" /\ inQuotes) =>
        result = parseCsvWithQuotes(Append(input, QUOTE))

\* C19 (amended): an input whose scan ends inside a quoted section gives
\* the table of the trimmed input with a closing quote appended; when the
\* input does not end in whitespace this is the table of the input with a
\* closing quote appended.
C19_Unterminated ==
    (pc = "done" /\ inQuotes) =>
        /\ result = parseCsvWithQuotes(Append(text, QUOTE))
        /\ ~IsSpace(Last(input)) =>
              result = parseCsvWithQuotes(Append(input, QUOTE))

\* a quoted field with a `;` in it and no closing quote
C19_Witness ==
    /\ pc = "done" /\ inQuotes
    /\ input = <<"a", SEMI, QUOTE, "a", SEMI>>
    /\ result = << << <<"a">>, <<"a", SEMI>> >> >>

\* The character at position k (1-based) is outside quotes: an even number
\* of quote characters precedes it.
Unquoted(s, k) ==
    Cardinality({j \in 1..(k - 1) : s[j] = QUOTE}) % 2 = 0

\* Every unquoted line terminator (\r\n, \r or \n) written as \n.
WithLf(s) ==
    Join([k \in DOMAIN s |->
            IF Unquoted(s, k) /\ s[k] = LF /\ k > 1 /\ s[k - 1] = CR THEN <<>>
            ELSE IF Unquoted(s, k) /\ s[k] = CR THEN <<LF>>
            ELSE <<s[k]>>], <<>>)

\* Every unquoted \n written as nl.
Restyle(s, nl) ==
    Join([k \in DOMAIN s |->
            IF Unquoted(s, k) /\ s[k] = LF THEN nl ELSE <<s[k]>>], <<>>)

\* C20: outside quotes a \r immediately followed by \n ends the current
\* row once and both characters are consumed; the table of an input is the
\* table of the same input with its unquoted line terminators written as
\* \n, as \r or as \r\n.
C20_LineTerminators ==
    /\ [][(InLoop /\ ~inQuotes /\ At(text, i) = CR /\ NextIs(text, i, LF)) =>
            /\ rows' = Append(rows, Append(row, field))
            /\ row' = <<>> /\ field' = <<>> /\ ~inQuotes'
            /\ i' = i + 2]_vars
    /\ [](pc = "done" =>
            \A nl \in LineTerminators :
                parseCsvWithQuotes(Restyle(WithLf(input), nl)) = result)

\* a \r\n between two rows, scanned in three iterations
C20_Witness ==
    /\ pc = "done" /\ input = <<"a", CR, LF, SEMI>> /\ iters = 3
    /\ result = << << <<"a">> >>, << <<>>, <<>> >> >>

Count(s, c) == Cardinality({k \in DOMAIN s : s[k] = c})

\* C21: for a trimmed, non-empty input without a quote character, an input
\* without a line terminator gives exactly one row of (number of `;`) + 1
\* fields; every line terminator ends a row, so the rows scanned number the
\* line terminators (a \r\n counted once) plus one; no returned field
\* contains `;`, \n or \r.
C21_UnquotedSplits ==
    (/\ pc = "done" /\ input # <<>> /\ input = Trim(input)
     /\ Count(input, QUOTE) = 0) =>
        /\ (Count(input, LF) = 0 /\ Count(input, CR) = 0) =>
              /\ Len(result) = 1
              /\ Len(result[1]) = Count(input, SEMI) + 1
        /\ \A r \in DOMAIN result : \A f \in DOMAIN result[r] :
              \A k \in DOMAIN result[r][f] :
                  result[r][f][k] \notin {SEMI, LF, CR}
        /\ Len(rows) = Count(text, LF) + Count(text, CR) + 1
                       - Cardinality({k \in 1..(Len(text) - 1) :
                                        text[k] = CR /\ text[k + 1] = LF})

\* two adjacent `;` between two fields: the empty field is kept
C21_Witness ==
    /\ pc = "done" /\ input = <<"a", SEMI, SEMI, "a">>
    /\ result = << << <<"a">>, <<>>, <<"a">> >> >>

----------------------------------------------------------------------------
(* Claims about both fetch actions *)

SmsColumns ==
    OptionalColumns \cup {<<"dateTime", ColDatetime>>, <<"message", ColMessage>>}

AccColumns ==
    {<<"price", ColPrice>>, <<"accessOrigin", ColAccessOrigin>>,
     <<"accessDestination", <<"a", "c", "c", "e", "s", "s", SP, "d", "e", "s", "t", "i", "n", "a", "t", "i", "o", "n">>>>,
     <<"testNumber", <<"t", "e", "s", "t", SP, "n", "u", "m", "b", "e", "r">>>>,
     <<"rate", ColRate>>, <<"currency", ColCurrency>>,
     <<"comment", <<"c", "o", "m", "m", "e", "n", "t">>>>,
     <<"message", ColMessage>>,
     <<"limitHour", <<"l", "i", "m", "i", "t", SP, "h", "o", "u", "r">>>>,
     <<"limitDay", <<"l", "i", "m", "i", "t", SP, "d", "a", "y">>>>,
     <<"datetime", ColDatetime>>}

\* the lowest index whose header, trimmed and lower-cased, is name, else -1
LowestMatch(hdr, name) ==
    IF HasColumn(hdr, name) THEN FirstColumn(hdr, name) ELSE -1

\* the lowest 0-based index of name in a row of labels, else -1
LowestIn(labels, name) ==
    IF \E k \in DOMAIN labels : labels[k] = name
    THEN (CHOOSE k \in DOMAIN labels :
            labels[k] = name /\ \A j \in 1..(k - 1) : labels[j] # name) - 1
    ELSE -1

\* the header row of the parsed table, each label trimmed and lower-cased
TrimmedLower == [k \in DOMAIN allRows[1] |-> ToLowerCase(Trim(allRows[1][k]))]

\* C22: when the column map has been set up, before the first data row is
\* read, each logical field of fetchSmsData and of fetchAccessListData
\* maps to the lowest index whose header, trimmed and lower-cased, equals
\* the expected name, or to -1 when no header matches; of duplicate
\* headers the first is taken.
C22_HeaderMapping ==
    /\ smspc = "mapped" =>
          LET labels == TrimmedLower
          IN  \A c \in SmsColumns : columnMap[c[1]] = LowestIn(labels, c[2])
    /\ (smspc = "accMapped" /\ rowIdx = 0) =>
          LET labels == TrimmedLower
          IN  \A c \in AccColumns : columnMap[c[1]] = LowestIn(labels, c[2])

\* the message column twice, first with other case and a trailing space
C22_Witness ==
    /\ smspc = "mapped" /\ Len(allRows[1]) = 3
    /\ allRows[1][1] = <<"M", "e", "s", "s", "a", "g", "e", SP>>
    /\ allRows[1][3] = ColMessage
    /\ columnMap.message = 0 /\ columnMap.dateTime = 1 /\ columnMap.rate = -1

\* C23: when access origin resolves, fetchAccessListData returns no error
\* and exactly one record per data row, in data-row order; each field of a
\* record is the row's value at the column's index, and is undefined when
\* that index is -1 or past the end of the row.
C23_NoLengthCheck ==
    (/\ smspc = "accDone" /\ Len(allRows) >= 2
     /\ HasColumn(allRows[1], ColAccessOrigin)) =>
        /\ smsResult.error = None /\ smsResult.data # None
        /\ Len(smsResult.data[1]) = Len(allRows) - 1
        /\ \A k \in 1..(Len(allRows) - 1) : \A c \in AccColumns :
              LET col == LowestMatch(allRows[1], c[2])
                  parts == allRows[k + 1]
              IN  smsResult.data[1][k][c[1]] =
                     IF 0 <= col /\ col < Len(parts) THEN Some(parts[col + 1])
                     ELSE None

\* a data row that ends before the access origin column still gives a
\* record
C23_Witness ==
    /\ smspc = "accDone" /\ Len(allRows) = 2 /\ Len(allRows[2]) = 1
    /\ columnMap.accessOrigin = 1 /\ columnMap.price = 0
    /\ smsResult.data # None /\ Len(smsResult.data[1]) = 1
    /\ smsResult.data[1][1].accessOrigin = None
    /\ smsResult.data[1][1].price = Some(allRows[2][1])
    /\ smsResult.data[1][1].comment = None

----------------------------------------------------------------------------
(* The two scans of extractInfoWithoutAI *)

\* where the qualifying substring that starts earliest lies: <<start, end>>
CodeSpan(m) ==
    LET cands == CodeCandidates(m)
        c == CHOOSE x \in cands : \A y \in cands : x[1] <= y[1]
    IN  <<c[1], c[1] + c[2]>>

\* where the first link lies: <<start, end>>
LinkSpan(m) ==
    LET p == CHOOSE q \in LinkStarts(m) : \A r \in LinkStarts(m) : q <= r
    IN  <<p, LinkEnd(m, p)>>

\* C24 as stated: the substring matched as the code and the substring
\* matched as the link do not overlap.
C24_DisjointAsStated ==
    (expc = "done" /\ info.confirmationCode # None /\ info.link # None) =>
        \/ CodeSpan(message)[2] <= LinkSpan(message)[1]
        \/ LinkSpan(message)[2] <= CodeSpan(message)[1]

\* C24 (amended): each result is determined by the message alone, the code
\* by the qualifying substring that starts earliest and the link by the
\* first link substring, whether or not the two overlap; when they overlap,
\* the code's substring lies inside the link's, after its scheme.
C24_IndependentScans ==
    expc = "done" =>
        /\ info.link = LinkFrom(message, LinkStarts(message))
        /\ info.confirmationCode =
              IF CodeCandidates(message) = {} THEN None
              ELSE Some(SelectSeq(SubSeq(message, CodeSpan(message)[1] + 1,
                                         CodeSpan(message)[2]),
                                  LAMBDA ch : ch \in Digits))
        /\ (info.confirmationCode # None /\ info.link # None) =>
              LET cs == CodeSpan(message)
                  ls == LinkSpan(message)
              IN  \/ cs[2] <= ls[1]
                  \/ ls[2] <= cs[1]
                  \/ /\ ls[1] + SchemeLen(message, ls[1]) <= cs[1]
                     /\ cs[2] <= ls[2]

\* the code is taken from inside the link
C24_Witness ==
    /\ expc = "done"
    /\ message = HttpPrefix \o <<"4", "8", "2", "9">>
    /\ info.link = Some(message)
    /\ info.confirmationCode = Some(<<"4", "8", "2", "9">>)

----------------------------------------------------------------------------
(* The fetch actions from the call to the response *)

MaxTime == 5

\* Points in time, in half days.
Times == 0..MaxTime

Filters == [startDate : Times, endDate : Times]

\* date-fns differenceInDays: the number of full days from earlier to
\* later, truncated towards zero (a day is two half days; no clock change
\* falls in the range)
differenceInDays(later, earlier) ==
    IF later >= earlier THEN (later - earlier) \div 2
    ELSE 0 - ((earlier - later) \div 2)

\* the bound of line 157
MaxDayDifference == 1

EndBeforeStartError == "End date must be after start date."
RangeTooLongError == "The date range can be a maximum of two days."

\* the messages of the issues superRefine adds (lines 148-164)
FilterIssues(f) ==
    IF f.endDate < f.startDate THEN <<EndBeforeStartError>>
    ELSE IF differenceInDays(f.endDate, f.startDate) > MaxDayDifference
         THEN <<RangeTooLongError>>
    ELSE <<>>

NoApiKeyError ==
    "API key is not configured. Please set it in the admin panel."

\* error.message || 'An unknown error occurred.'
ThrownErrors == {"fetch failed", "An unknown error occurred."}

\* the values getApiKey returns: '' when there is no setting, else the key
ApiKeys == {<<>>, <<"k">>}

\* a filter that passes, one that ends before it starts, one that is too
\* long
FilterExamples ==
    {[startDate |-> 0, endDate |-> 1], [startDate |-> 1, endDate |-> 0],
     [startDate |-> 0, endDate |-> MaxTime]}

smsBodyVars == <<smsHeader, smsShape, csvText, allRows, headers, dataRows,
                columnMap, records, rowIdx>>

SmsBodyIdle ==
    /\ smsHeader = <<>> /\ smsShape = <<>> /\ csvText = <<>>
    /\ allRows = <<>> /\ headers = <<>> /\ dataRows = <<>>
    /\ columnMap = NoColumnMap /\ records = <<>> /\ rowIdx = 0
    /\ smsResult = [data |-> None, error |-> None]
    /\ apiKey = None /\ sent = 0
    /\ ScanIdle /\ RtIdle /\ ExIdle /\ CallIdle /\ ConcIdle /\ DbIdle

\* fetchSmsData(filter) is called
SmsCallInit ==
    /\ smspc = "called" /\ filter \in FilterExamples /\ SmsBodyIdle

\* the same with every filter of the bounded range
ValidateInit ==
    /\ smspc = "called" /\ filter \in Filters /\ SmsBodyIdle

\* fetchAccessListData(formValues) is called
AccCallInit ==
    /\ smspc = "accCalled" /\ filter = <<>> /\ SmsBodyIdle

\* line 169: const apiKey = await getApiKey()
SmsReadApiKey ==
    /\ smspc = "called"
    /\ \E k \in ApiKeys : apiKey' = Some(k)
    /\ smspc' = "keyed"
    /\ UNCHANGED <<filter, sent, smsResult>>
    /\ UNCHANGED smsBodyVars
    /\ UNCHANGED nonFetchVars

\* getApiKey (line 169) or getProxyAgent (line 180) throws: both awaits stand
\* before the try block, so the call rejects and returns no value
SmsRejects ==
    /\ \/ smspc = "called"
       \/ smspc = "keyed" /\ apiKey # Some(<<>>) /\ FilterIssues(filter) = <<>>
    /\ smspc' = "rejected"
    /\ UNCHANGED <<apiKey, filter, sent, smsResult>>
    /\ UNCHANGED smsBodyVars
    /\ UNCHANGED nonFetchVars

\* lines 171-173: if (!apiKey) return { error }
SmsNoApiKey ==
    /\ smspc = "keyed" /\ apiKey = Some(<<>>)
    /\ smsResult' = Err(NoApiKeyError)
    /\ smspc' = "done"
    /\ UNCHANGED <<apiKey, filter, sent>>
    /\ UNCHANGED smsBodyVars
    /\ UNCHANGED nonFetchVars

\* lines 175-178: the validation failed; the messages joined by a comma
SmsInvalidFilter ==
    /\ smspc = "keyed" /\ apiKey # Some(<<>>)
    /\ FilterIssues(filter) # <<>>
    /\ smsResult' = Err(FilterIssues(filter)[1])
    /\ smspc' = "done"
    /\ UNCHANGED <<apiKey, filter, sent>>
    /\ UNCHANGED smsBodyVars
    /\ UNCHANGED nonFetchVars

\* Variant: the request is sent before the filter is validated.
SmsSendRequestUnchecked ==
    /\ smspc = "keyed" /\ apiKey # Some(<<>>)
    /\ sent' = sent + 1
    /\ smspc' = IF FilterIssues(filter) = <<>> THEN "requested" ELSE "keyed"
    /\ sent = 0
    /\ UNCHANGED <<apiKey, filter, smsResult>>
    /\ UNCHANGED smsBodyVars
    /\ UNCHANGED nonFetchVars

\* lines 180-216: the proxy agent is read, the body built and fetch called
SmsSendRequest ==
    /\ smspc = "keyed" /\ apiKey # Some(<<>>)
    /\ FilterIssues(filter) = <<>>
    /\ sent' = sent + 1
    /\ smspc' = "requested"
    /\ UNCHANGED <<apiKey, filter, smsResult>>
    /\ UNCHANGED smsBodyVars
    /\ UNCHANGED nonFetchVars

\* fetch throws; lines 279-283 return the message
SmsFetchThrows ==
    /\ smspc = "requested"
    /\ \E m \in ThrownErrors : smsResult' = Err(m)
    /\ smspc' = "done"
    /\ UNCHANGED <<apiKey, filter, sent>>
    /\ UNCHANGED smsBodyVars
    /\ UNCHANGED nonFetchVars

\* lines 218-220: if (!response.ok) return handleApiError(response)
SmsHttpFailure ==
    /\ smspc = "requested"
    /\ \E m \in ApiErrors : smsResult' = Err(m)
    /\ smspc' = "done"
    /\ UNCHANGED <<apiKey, filter, sent>>
    /\ UNCHANGED smsBodyVars
    /\ UNCHANGED nonFetchVars

\* response.ok: the body is read next
SmsHttpOk ==
    /\ smspc = "requested"
    /\ smspc' = "remote"
    /\ UNCHANGED <<apiKey, filter, sent, smsResult>>
    /\ UNCHANGED smsBodyVars
    /\ UNCHANGED nonFetchVars

SmsFront ==
    \/ SmsReadApiKey
    \/ SmsRejects
    \/ SmsNoApiKey
    \/ SmsInvalidFilter
    \/ SmsSendRequest
    \/ SmsFetchThrows
    \/ SmsHttpFailure
    \/ SmsHttpOk

\* line 289: const apiKey = await getApiKey()
AccReadApiKey ==
    /\ smspc = "accCalled"
    /\ \E k \in ApiKeys : apiKey' = Some(k)
    /\ smspc' = "accKeyed"
    /\ UNCHANGED <<filter, sent, smsResult>>
    /\ UNCHANGED smsBodyVars
    /\ UNCHANGED nonFetchVars

\* getApiKey (line 289) or getProxyAgent (line 295) throws before the try
\* block
AccRejects ==
    /\ \/ smspc = "accCalled"
       \/ smspc = "accKeyed" /\ apiKey # Some(<<>>)
    /\ smspc' = "accRejected"
    /\ UNCHANGED <<apiKey, filter, sent, smsResult>>
    /\ UNCHANGED smsBodyVars
    /\ UNCHANGED nonFetchVars

\* lines 291-293
AccNoApiKey ==
    /\ smspc = "accKeyed" /\ apiKey = Some(<<>>)
    /\ smsResult' = Err(NoApiKeyError)
    /\ smspc' = "accDone"
    /\ UNCHANGED <<apiKey, filter, sent>>
    /\ UNCHANGED smsBodyVars
    /\ UNCHANGED nonFetchVars

\* lines 295-333
AccSendRequest ==
    /\ smspc = "accKeyed" /\ apiKey # Some(<<>>)
    /\ sent' = sent + 1
    /\ smspc' = "accRequested"
    /\ UNCHANGED <<apiKey, filter, smsResult>>
    /\ UNCHANGED smsBodyVars
    /\ UNCHANGED nonFetchVars

\* fetch throws; lines 394-398 return the message
AccFetchThrows ==
    /\ smspc = "accRequested"
    /\ \E m \in ThrownErrors : smsResult' = Err(m)
    /\ smspc' = "accDone"
    /\ UNCHANGED <<apiKey, filter, sent>>
    /\ UNCHANGED smsBodyVars
    /\ UNCHANGED nonFetchVars

\* lines 335-337
AccHttpFailure ==
    /\ smspc = "accRequested"
    /\ \E m \in ApiErrors : smsResult' = Err(m)
    /\ smspc' = "accDone"
    /\ UNCHANGED <<apiKey, filter, sent>>
    /\ UNCHANGED smsBodyVars
    /\ UNCHANGED nonFetchVars

\* response.ok: the body is read next
AccHttpOk ==
    /\ smspc = "accRequested"
    /\ smspc' = "accRemote"
    /\ UNCHANGED <<apiKey, filter, sent, smsResult>>
    /\ UNCHANGED smsBodyVars
    /\ UNCHANGED nonFetchVars

AccFront ==
    \/ AccReadApiKey
    \/ AccRejects
    \/ AccNoApiKey
    \/ AccSendRequest
    \/ AccFetchThrows
    \/ AccHttpFailure
    \/ AccHttpOk

\* fetchSmsData up to the response, for every filter
ValidateSpec == ValidateInit /\ [][SmsFront]_vars

\* fetchSmsData from the call to the return
SmsCallSpec == SmsCallInit /\ [][SmsFront \/ SmsNext]_vars

\* fetchSmsData or fetchAccessListData from the call to the return
FullSpec ==
    (SmsCallInit \/ AccCallInit)
    /\ [][SmsFront \/ SmsNext \/ AccFront \/ AccNext]_vars

(* Claims about the fetch actions as a whole *)

\* C25: every value fetchSmsData and fetchAccessListData return carries
\* exactly one of data and error, whichever path led to the return; an
\* error comes without records; a call that rejects returns no value.
C25_DataXorError ==
    /\ smspc \in {"done", "accDone"} =>
          /\ (smsResult.data = None) # (smsResult.error = None)
          /\ smsResult.error # None => smsResult.data = None
    /\ smspc \notin {"done", "accDone"} =>
          smsResult = [data |-> None, error |-> None]

\* the catch clause returns the message of an exception fetch threw
C25_Witness ==
    /\ smspc = "accDone" /\ sent = 1 /\ csvText = <<>>
    /\ smsResult.error = Some("fetch failed") /\ smsResult.data = None

\* C26: in fetchSmsData a request is sent only once a non-empty API key
\* has been read and the filter has passed validation; with an empty API
\* key or an invalid filter no request is ever sent and no CSV is parsed,
\* and once the key has been read the next step returns an error.
C26_RequestOrdering ==
    /\ [][sent' > sent =>
            /\ apiKey # None /\ apiKey # Some(<<>>)
            /\ filter.startDate <= filter.endDate
            /\ differenceInDays(filter.endDate, filter.startDate) <= 1]_vars
    /\ [][(smspc = "keyed" /\
           (apiKey = Some(<<>>) \/ filter.endDate < filter.startDate
            \/ differenceInDays(filter.endDate, filter.startDate) > 1)) =>
            /\ smspc' = "done" /\ sent' = 0
            /\ smsResult'.error # None /\ smsResult'.data = None]_vars
    /\ []((apiKey = Some(<<>>) \/ filter.endDate < filter.startDate
            \/ differenceInDays(filter.endDate, filter.startDate) > 1) =>
            /\ sent = 0 /\ csvText = <<>> /\ allRows = <<>>
            /\ smspc \in {"called", "keyed", "done", "rejected"})

\* a non-empty key and a filter that is too long: the error, no request
C26_Witness ==
    /\ smspc = "done" /\ apiKey = Some(<<"k">>) /\ sent = 0
    /\ filter = [startDate |-> 0, endDate |-> MaxTime]
    /\ smsResult = [data |-> None, error |-> Some(RangeTooLongError)]

\* C27: once the body of a successful response is read, an empty or
\* whitespace-only body gives empty data and a body whose trimmed text
\* starts with { gives an error, both without the tokenizer being invoked;
\* every other body is tokenized.
C27_ResponseTriage ==
    [][(smspc = "body" \/ smspc = "accBody") =>
         (LET t == Trim(csvText) IN
         IF t = <<>>
         THEN /\ smsResult' = [data |-> Some(<<>>), error |-> None]
              /\ smspc' \in {"done", "accDone"} /\ allRows' = allRows
         ELSE IF t[1] = "{"
         THEN /\ smsResult'.error # None /\ smsResult'.data = None
              /\ smspc' \in {"done", "accDone"} /\ allRows' = allRows
         ELSE /\ allRows' = parseCsvWithQuotes(csvText)
              /\ smspc' \in {"parsed", "accParsed"}
              /\ smsResult' = smsResult)]_vars

\* a JSON body after a blank: the error, nothing tokenized
C27_Witness ==
    /\ smspc = "done" /\ sent = 1
    /\ csvText = <<SP, "{", "}", LF>>
    /\ smsResult.error # None /\ smsResult.data = None /\ allRows = <<>>

\* the filter has been validated: the key is not empty and the call is
\* past line 178
Validated ==
    /\ apiKey # None /\ apiKey # Some(<<>>)
    /\ smspc \in {"done", "requested", "remote"}

\* C28: a filter that ends before it starts is rejected with the
\* first message, a filter of at most two days (four half days) is
\* accepted, a longer one is rejected with the second message.
C28_DateRange ==
    Validated =>
        IF filter.endDate < filter.startDate
        THEN sent = 0 /\ smsResult = Err(EndBeforeStartError)
        ELSE IF filter.endDate - filter.startDate <= 2 * 2
        THEN sent = 1
        ELSE sent = 0 /\ smsResult = Err(RangeTooLongError)

(* Quote characters in the output *)

RECURSIVE Flatten(_)
\* the concatenation of a sequence of sequences
Flatten(ss) == IF ss = <<>> THEN <<>> ELSE Head(ss) \o Flatten(Tail(ss))

RECURSIVE IsSubsequence(_, _)
\* a can be obtained from b by deleting characters
IsSubsequence(a, b) ==
    IF a = <<>> THEN TRUE
    ELSE IF b = <<>> THEN FALSE
    ELSE IF Head(a) = Head(b) THEN IsSubsequence(Tail(a), Tail(b))
    ELSE IsSubsequence(a, Tail(b))

\* the number of quote characters held in the accumulators; after the
\* final flush the field and the row have been moved into rows
QuotesHeld ==
    IF pc = "done" THEN Count(Flatten(Flatten(rows)), QUOTE)
    ELSE Count(field, QUOTE) + Count(Flatten(row), QUOTE)
         + Count(Flatten(Flatten(rows)), QUOTE)

AdjacentQuotes(s) ==
    \E k \in 1..(Len(s) - 1) : s[k] = QUOTE /\ s[k + 1] = QUOTE

\* C29: a quote character enters a field only in a step that reads a
\* doubled quote inside a quoted section, one quote for the pair; for an
\* input with no two adjacent quote characters no field of the result
\* holds a quote, and the characters of the fields, read in order, are a
\* subsequence of the input.
C29_StructuralQuotes ==
    /\ [][QuotesHeld' > QuotesHeld =>
            /\ pc = "scan" /\ i < Len(text) /\ inQuotes /\ inQuotes'
            /\ At(text, i) = QUOTE /\ NextIs(text, i, QUOTE)
            /\ i' = i + 2
            /\ QuotesHeld' = QuotesHeld + 1]_vars
    /\ []((pc = "done" /\ ~AdjacentQuotes(input)) =>
            /\ Count(Flatten(Flatten(result)), QUOTE) = 0
            /\ IsSubsequence(Flatten(Flatten(result)), input)
            /\ \A r \in DOMAIN result : \A c \in DOMAIN result[r] :
                  IsSubsequence(result[r][c], input))

\* two quoted sections, no doubled quote: the quotes are all consumed
C29_Witness ==
    /\ pc = "done"
    /\ input = <<QUOTE, "a", QUOTE, SEMI, "a">>
    /\ result = << << <<"a">>, <<"a">> >> >>

----------------------------------------------------------------------------
(* connectDB: callers of one process share the object cached. A caller    *)
(* runs from its call to its await without interruption and is resumed    *)
(* after the promise it awaits has settled.                                *)

MaxCallers == 3
MaxDbCalls == 2
Callers == 1..MaxCallers

\* the value mongoose.connect resolves with
Mongoose == "mongoose"
ConnectError == "connect failed"

CallerIdle == [pc |-> "idle", awaiting |-> None, ret |-> None, calls |-> 0]

DbInit ==
    /\ cached = [conn |-> None, promise |-> None]
    /\ connects = 0 /\ seeds = 0 /\ promiseState = "none"
    /\ callers = [c \in Callers |-> CallerIdle]
    /\ ScanIdle /\ RtIdle /\ ExIdle /\ SmsIdle /\ CallIdle /\ ConcIdle
    /\ FrontIdle

\* Variant: a connect is started whenever no connection is cached yet.
NeedsConnectNoConn == cached.conn = None

\* line 250: !cached.promise
NeedsConnect == cached.promise = None

\* lines 246-248: a connection is cached and returned at once
DbCallCached(c) ==
    /\ callers[c].pc = "idle" /\ callers[c].calls < MaxDbCalls
    /\ cached.conn # None
    /\ callers' = [callers EXCEPT ![c] =
          [pc |-> "returned", awaiting |-> None, ret |-> cached.conn,
           calls |-> @.calls + 1]]
    /\ UNCHANGED <<cached, connects, seeds, promiseState>>
    /\ UNCHANGED nonDbVars

\* lines 250-260: no promise is cached; connect is started, its promise
\* cached, and the caller awaits it
DbCallConnect(c) ==
    /\ callers[c].pc = "idle" /\ callers[c].calls < MaxDbCalls
    /\ cached.conn = None /\ NeedsConnect
    /\ connects' = connects + 1
    /\ cached' = [cached EXCEPT !.promise = Some(connects + 1)]
    /\ promiseState' = "pending"
    /\ callers' = [callers EXCEPT ![c] =
          [pc |-> "awaiting", awaiting |-> Some(connects + 1), ret |-> None,
           calls |-> @.calls + 1]]
    /\ UNCHANGED seeds
    /\ UNCHANGED nonDbVars

\* lines 250, 260: a promise is cached; the caller awaits it
DbCallAwait(c) ==
    /\ callers[c].pc = "idle" /\ callers[c].calls < MaxDbCalls
    /\ cached.conn = None /\ ~NeedsConnect
    /\ callers' = [callers EXCEPT ![c] =
          [pc |-> "awaiting", awaiting |-> cached.promise, ret |-> None,
           calls |-> @.calls + 1]]
    /\ UNCHANGED <<cached, connects, seeds, promiseState>>
    /\ UNCHANGED nonDbVars

\* lines 255-256: connect has resolved; the then callback starts seeding
DbConnected ==
    /\ promiseState = "pending"
    /\ seeds' = seeds + 1
    /\ promiseState' = "seeding"
    /\ UNCHANGED <<cached, connects, callers>>
    /\ UNCHANGED nonDbVars

\* line 255: connect has rejected; the then callback is not run
DbConnectFails ==
    /\ promiseState = "pending"
    /\ promiseState' = "rejected"
    /\ UNCHANGED <<cached, connects, seeds, callers>>
    /\ UNCHANGED nonDbVars

\* lines 256-257: seedDatabase has returned (it catches what it throws);
\* the cached promise resolves with mongoose
DbSeeded ==
    /\ promiseState = "seeding"
    /\ promiseState' = "resolved"
    /\ UNCHANGED <<cached, connects, seeds, callers>>
    /\ UNCHANGED nonDbVars

\* lines 260-261: the awaited promise has resolved
DbResume(c) ==
    /\ callers[c].pc = "awaiting" /\ promiseState = "resolved"
    /\ cached' = [cached EXCEPT !.conn = Some(Mongoose)]
    /\ callers' = [callers EXCEPT ![c] =
          [@ EXCEPT !.pc = "returned", !.ret = Some(Mongoose)]]
    /\ UNCHANGED <<connects, seeds, promiseState>>
    /\ UNCHANGED nonDbVars

\* line 260: the awaited promise has rejected; the await throws
DbThrow(c) ==
    /\ callers[c].pc = "awaiting" /\ promiseState = "rejected"
    /\ callers' = [callers EXCEPT ![c] =
          [@ EXCEPT !.pc = "threw", !.ret = Some(ConnectError)]]
    /\ UNCHANGED <<cached, connects, seeds, promiseState>>
    /\ UNCHANGED nonDbVars

\* the caller is free to call connectDB again
DbAgain(c) ==
    /\ callers[c].pc \in {"returned", "threw"}
    /\ callers[c].calls < MaxDbCalls
    /\ callers' = [callers EXCEPT ![c] =
          [@ EXCEPT !.pc = "idle", !.awaiting = None, !.ret = None]]
    /\ UNCHANGED <<cached, connects, seeds, promiseState>>
    /\ UNCHANGED nonDbVars

DbNext ==
    \/ \E c \in Callers : DbCallCached(c)
    \/ \E c \in Callers : DbCallConnect(c)
    \/ \E c \in Callers : DbCallAwait(c)
    \/ DbConnected
    \/ DbConnectFails
    \/ DbSeeded
    \/ \E c \in Callers : DbResume(c)
    \/ \E c \in Callers : DbThrow(c)
    \/ \E c \in Callers : DbAgain(c)

DbSpec == DbInit /\ [][DbNext]_vars

\* C30: whatever the interleaving of the callers, mongoose.connect and
\* the seeding are started at most once; every caller that awaits, awaits
\* the cached promise; a caller returns only the cached connection; once
\* the promise has resolved no connect and no seeding is started and every
\* call that finds the connection cached returns it at once.
C30_LazyInit ==
    /\ [](connects <= 1 /\ seeds <= 1)
    /\ [](\A c \in Callers :
            /\ callers[c].pc = "awaiting" =>
                  callers[c].awaiting # None
                  /\ callers[c].awaiting = cached.promise
            /\ callers[c].pc = "returned" =>
                  /\ promiseState = "resolved"
                  /\ callers[c].ret = Some(Mongoose)
                  /\ cached.conn = Some(Mongoose))
    /\ [][promiseState = "resolved" =>
            /\ connects' = connects /\ seeds' = seeds
            /\ promiseState' = "resolved"
            /\ \A c \in Callers :
                  /\ callers'[c].pc # "threw"
                  /\ (cached.conn # None /\ callers[c].pc = "idle"
                      /\ callers'[c].pc # "idle") =>
                        /\ callers'[c].pc = "returned"
                        /\ callers'[c].ret = cached.conn]_vars

\* three callers behind one connect, the first of them on its second call
C30_Witness ==
    /\ connects = 1 /\ seeds = 1
    /\ \A c \in Callers : callers[c].pc = "returned"
    /\ callers[1].calls = 2 /\ callers[2].calls = 1 /\ callers[3].calls = 1

====
